---- MODULE Spec2Model ----
(***************************************************************************)
(* Authentication core of interactive-todo: the JWT token manager, the     *)
(* refresh-token ledger, the auth handlers (login, refresh, logout,        *)
(* logout-all, cleanup) and the RequireAuth middleware.                    *)
(*                                                                         *)
(* Time is counted in whole seconds.  A JWT is modelled by the record of   *)
(* its header, claims and signing key: two tokens minted for the same user *)
(* in the same second are the same string, as in the code (NumericDate has *)
(* second precision and the claims carry no token id).                     *)
(*                                                                         *)
(* Every request owns a slot; a handler is cut into steps at its calls of  *)
(* the refresh-token and user stores, each of which is one SQL statement.  *)
(***************************************************************************)
EXTENDS Integers, Sequences, FiniteSets, TLC

\* ---------------------------------------------------------------- bounds
MaxTicks == 2

MaxRequests == 3

MaxMinted == 1

Slots == {1, 2}

UserIDs == {"u1", "u2"}

VARIABLES now, ticks, started, users, ledger, req, delivered, rotated, loggedOut, loggedOutAll, lookup,
          config, teams, team_members, tasks, validated

vars == <<now, ticks, started, users, ledger, req, delivered, rotated, loggedOut, loggedOutAll, lookup,
          config, teams, team_members, tasks, validated>>

\* ------------------------------------------------------ program constants
AccessTokenExpiry == 900

RefreshTokenExpiry == 604800

Leeway == 30

LedgerLifetime == 604800

CleanupAge == 86400

MinPasswordLen == 8

Issuer == "interactive-todo"

Audience == "interactive todo frontend"

\* JWT_ACCESS_SECRET and JWT_REFRESH_SECRET as the process was started with
AccessSecret == config.AccessSecret

RefreshSecret == config.RefreshSecret

NULL == 0 - 1

\* NewApplication: the JWT configuration, or a panic when a secret is missing
NewApplication(accessSecret, refreshSecret) ==
    IF accessSecret = "" \/ refreshSecret = ""
    THEN [panic |-> TRUE, AccessSecret |-> "", RefreshSecret |-> ""]
    ELSE [panic |-> FALSE, AccessSecret |-> accessSecret, RefreshSecret |-> refreshSecret]

\* ------------------------------------------------------------ token manager
MintAccessToken(userID, email, userType, t) ==
    [alg |-> "HS256", key |-> AccessSecret, iss |-> Issuer, aud |-> Audience,
     sub |-> userID, user_id |-> userID, email |-> email, user_type |-> userType,
     iat |-> t, nbf |-> t, exp |-> t + AccessTokenExpiry]

MintRefreshToken(userID, t) ==
    [alg |-> "HS256", key |-> RefreshSecret, iss |-> Issuer, aud |-> Audience,
     sub |-> userID, user_id |-> userID, email |-> "", user_type |-> "",
     iat |-> t, nbf |-> t, exp |-> t + RefreshTokenExpiry]

\* jwt.Parser with WithValidMethods(HS256), WithIssuedAt, WithExpirationRequired,
\* WithIssuer and WithLeeway(30s); the key function returns `secret`.
ParseWithClaims(tok, secret, t) ==
    /\ tok.alg = "HS256"
    /\ tok.key = secret
    /\ tok.exp # NULL
    /\ t - Leeway < tok.exp
    /\ ~(t + Leeway < tok.nbf)
    /\ ~(t + Leeway < tok.iat)
    /\ tok.iss = Issuer

\* variant: the parser is built without WithLeeway
ValidateAccessTokenWithoutLeeway(tok, t) ==
    IF /\ tok.alg = "HS256" /\ tok.key = AccessSecret /\ tok.exp # NULL /\ t < tok.exp
       /\ ~(t < tok.nbf) /\ ~(t < tok.iat) /\ tok.iss = Issuer
    THEN [err |-> "", claims |-> <<[user_id |-> tok.user_id, email |-> tok.email, user_type |-> tok.user_type]>>]
    ELSE [err |-> "invalid token", claims |-> <<>>]

ValidateAccessToken(tok, t) ==
    IF ParseWithClaims(tok, AccessSecret, t)
    THEN [err |-> "", claims |-> <<[user_id |-> tok.user_id, email |-> tok.email, user_type |-> tok.user_type]>>]
    ELSE [err |-> "invalid token", claims |-> <<>>]

ValidateRefreshToken(tok, t) ==
    IF ParseWithClaims(tok, RefreshSecret, t)
    THEN [err |-> "", claims |-> <<[user_id |-> tok.user_id, email |-> tok.email, user_type |-> tok.user_type]>>]
    ELSE [err |-> "invalid token", claims |-> <<>>]

\* the last direct call of ValidateAccessToken: its argument, time and result
NoValidation == [tok |-> <<>>, at |-> 0, err |-> "", claims |-> <<>>]

\* Token strings that were not minted by this server.
Garbage ==
    [alg |-> "malformed", key |-> "", iss |-> "", aud |-> "", sub |-> "", user_id |-> "",
     email |-> "", user_type |-> "", iat |-> 0, nbf |-> 0, exp |-> NULL]

Forged ==
    [alg |-> "HS256", key |-> "attacker-secret", iss |-> Issuer, aud |-> Audience,
     sub |-> "u1", user_id |-> "u1", email |-> "", user_type |-> "",
     iat |-> 0, nbf |-> 0, exp |-> RefreshTokenExpiry]

BadTokens == {Garbage, Forged}

\* ------------------------------------------------------------ passwords
HashPassword(password) == <<"argon2id", password>>

VerifyPassword(password, encoded) == encoded = HashPassword(password)

\* sha256.Sum256 + %x: a one-way, collision-free digest of the token string
Sha256Hex(tok) == <<"sha256", tok>>

\* ------------------------------------------------------ refresh-token store
\* auth_refresh_tokens.token_hash is the lookup key of the table
TokenHashFree(rows, tokenHash) == ~\E r \in rows : r.token_hash = tokenHash

Create(rows, userId, tokenHash, expiresAt, t) ==
    IF expiresAt < t
    THEN [err |-> "expiration must be in future", rows |-> rows]
    ELSE IF ~TokenHashFree(rows, tokenHash)
    THEN [err |-> "duplicate key", rows |-> rows]
    ELSE [err |-> "",
          rows |-> rows \cup {[user_id |-> userId, token_hash |-> tokenHash, issued_at |-> t,
                               expires_at |-> expiresAt, revoked_at |-> NULL]}]

\* variant: the revoked_at test is missing
GetByHashIgnoringRevoked(rows, tokenHash, t) ==
    IF ~\E r \in rows : r.token_hash = tokenHash
    THEN [err |-> "token not found", row |-> <<>>]
    ELSE LET r == CHOOSE x \in rows : x.token_hash = tokenHash IN
         IF r.expires_at < t
         THEN [err |-> "token has expired", row |-> <<>>]
         ELSE [err |-> "", row |-> <<r>>]

\* variant: the expires_at test is missing
GetByHashIgnoringExpiry(rows, tokenHash, t) ==
    IF ~\E r \in rows : r.token_hash = tokenHash
    THEN [err |-> "token not found", row |-> <<>>]
    ELSE LET r == CHOOSE x \in rows : x.token_hash = tokenHash IN
         IF r.revoked_at # NULL
         THEN [err |-> "token has been revoked", row |-> <<>>]
         ELSE [err |-> "", row |-> <<r>>]

GetByHash(rows, tokenHash, t) ==
    IF ~\E r \in rows : r.token_hash = tokenHash
    THEN [err |-> "token not found", row |-> <<>>]
    ELSE LET r == CHOOSE x \in rows : x.token_hash = tokenHash IN
         IF r.revoked_at # NULL
         THEN [err |-> "token has been revoked", row |-> <<>>]
         ELSE IF r.expires_at < t
         THEN [err |-> "token has expired", row |-> <<>>]
         ELSE [err |-> "", row |-> <<r>>]

\* variant: UPDATE ... WHERE token_hash = $1, without "AND revoked_at IS NULL"
RevokeWithoutNullCheck(rows, tokenHash, t) ==
    LET hit == {r \in rows : r.token_hash = tokenHash} IN
    IF hit = {}
    THEN [err |-> "not found", rows |-> rows]
    ELSE [err |-> "", rows |-> (rows \ hit) \cup {[r EXCEPT !.revoked_at = t] : r \in hit}]

\* variant: UPDATE ... WHERE revoked_at IS NULL, without "token_hash = $1"
RevokeAnyHash(rows, tokenHash, t) ==
    LET hit == {r \in rows : r.revoked_at = NULL} IN
    IF hit = {}
    THEN [err |-> "not found", rows |-> rows]
    ELSE [err |-> "", rows |-> (rows \ hit) \cup {[r EXCEPT !.revoked_at = t] : r \in hit}]

Revoke(rows, tokenHash, t) ==
    LET hit == {r \in rows : r.token_hash = tokenHash /\ r.revoked_at = NULL} IN
    IF hit = {}
    THEN [err |-> "not found", rows |-> rows]
    ELSE [err |-> "", rows |-> (rows \ hit) \cup {[r EXCEPT !.revoked_at = t] : r \in hit}]

RevokeAllForUser(rows, userID, t) ==
    LET hit == {r \in rows : r.user_id = userID /\ r.revoked_at = NULL} IN
    IF hit = {}
    THEN [err |-> "not found", rows |-> rows]
    ELSE [err |-> "", rows |-> (rows \ hit) \cup {[r EXCEPT !.revoked_at = t] : r \in hit}]

\* variant: DELETE ... WHERE expires_at < $1 OR revoked_at IS NOT NULL
DeleteExpiredOrRevoked(rows, before) ==
    {r \in rows : ~(r.expires_at < before \/ r.revoked_at # NULL)}

DeleteExpired(rows, before) == {r \in rows : ~(r.expires_at < before)}

\* the outcome of a direct GetByHash call, held in the state right after it
NoLookup == [hash |-> <<>>, err |-> "", row |-> <<>>]

\* ------------------------------------------------------------ strings
\* strings.TrimSpace of the names and emails a client sends
TrimSpace(str) ==
    IF str = " alpha " THEN "alpha"
    ELSE IF str = "  " THEN ""
    ELSE IF str = " u3@example.com " THEN "u3@example.com"
    ELSE IF str = " U3@Example.com " THEN "U3@Example.com"
    ELSE str

\* strings.ToLower; LOWER(name) of idx_uniq_team_name_ci; the comparison of
\* two CITEXT values is the comparison of their lower-case forms
Lower(str) ==
    IF str = "Alpha" THEN "alpha"
    ELSE IF str = "U3@Example.com" THEN "u3@example.com"
    ELSE IF str = " U3@Example.com " THEN " u3@example.com "
    ELSE IF str = "U1@Example.com" THEN "u1@example.com"
    ELSE str

\* strings.TrimSpace(strings.ToLower(in.Email))
NormalizeEmail(email) == TrimSpace(Lower(email))

\* len(email) < 4 || !strings.Contains(email, "@")
InvalidEmail(email) == Len(email) < 4 \/ email = "no-at-sign"

\* ------------------------------------------------------------ apperror
AppError(code, message, httpStatus) ==
    [Code |-> code, Message |-> message, HTTPStatus |-> httpStatus]

BadRequest(message) == AppError("BAD_REQUEST", message, 400)

NotFound(message) == AppError("NOT_FOUND", message, 404)

InvalidCredentials == AppError("INVALID_CREDENTIALS", "Invalid email or password", 401)

EmailAlreadyExists == AppError("EMAIL_ALREADY_EXISTS", "Email address already registered", 409)

\* ------------------------------------------------------------ user store
\* users.email is CITEXT NOT NULL UNIQUE
EmailTaken(us, email) == \E u \in DOMAIN us : Lower(us[u].email) = Lower(email)

GetUserByEmail(email) ==
    LET hit == {u \in DOMAIN users : Lower(users[u].email) = Lower(email)} IN
    IF hit = {} THEN <<>> ELSE LET u == CHOOSE x \in hit : TRUE IN <<[id |-> u] @@ users[u]>>

GetUserByID(id) ==
    IF id \in DOMAIN users THEN <<[id |-> id] @@ users[id]>> ELSE <<>>

\* ------------------------------------------------------------ middleware
\* A header value is a string: `text`, a sequence of single characters,
\* followed by at most one token string `tok` (token strings hold no blank).
Str(text, tok) == [text |-> text, tok |-> tok]

BearerPrefix == <<"B", "e", "a", "r", "e", "r", " ">>

HasPrefix(s, p) == Len(s.text) >= Len(p) /\ SubSeq(s.text, 1, Len(p)) = p

TrimPrefix(s, p) ==
    IF HasPrefix(s, p) THEN Str(SubSeq(s.text, Len(p) + 1, Len(s.text)), s.tok) ELSE s

EmptyStr == Str(<<>>, <<>>)

\* the token a string decodes to; a string that is not exactly one token
\* string does not decode
DecodeToken(s) == IF s.text = <<>> /\ s.tok # <<>> THEN s.tok[1] ELSE Garbage

\* variant: the scheme is not checked before it is trimmed
ExtractWithoutSchemeCheck(token) ==
    IF token = EmptyStr
    THEN [err |-> "no token", accessToken |-> EmptyStr]
    ELSE LET accessToken == TrimPrefix(token, BearerPrefix) IN
         IF accessToken = EmptyStr
         THEN [err |-> "no access token", accessToken |-> EmptyStr]
         ELSE [err |-> "", accessToken |-> accessToken]

ExtractAccessTokenFromBearer(token) ==
    IF token = EmptyStr
    THEN [err |-> "no token", accessToken |-> EmptyStr]
    ELSE IF ~HasPrefix(token, BearerPrefix)
    THEN [err |-> "invalid authorization header", accessToken |-> EmptyStr]
    ELSE LET accessToken == TrimPrefix(token, BearerPrefix) IN
         IF accessToken = EmptyStr
         THEN [err |-> "no access token", accessToken |-> EmptyStr]
         ELSE [err |-> "", accessToken |-> accessToken]

\* variant: the guard also asks the ledger for a live session of the user
RequireAuthWithSession(header, t) ==
    LET ex == ExtractAccessTokenFromBearer(header) IN
    IF ex.err # ""
    THEN [status |-> 401, claims |-> <<>>]
    ELSE LET v == ValidateAccessToken(DecodeToken(ex.accessToken), t) IN
         IF v.err # ""
         THEN [status |-> 401, claims |-> <<>>]
         ELSE IF ~\E r \in ledger : r.user_id = v.claims[1].user_id /\ r.revoked_at = NULL
         THEN [status |-> 401, claims |-> <<>>]
         ELSE [status |-> 0, claims |-> v.claims]

\* status 0: the downstream handler runs with `claims` in its context
RequireAuth(header, t) ==
    LET ex == ExtractAccessTokenFromBearer(header) IN
    IF ex.err # ""
    THEN [status |-> 401, claims |-> <<>>]
    ELSE LET v == ValidateAccessToken(DecodeToken(ex.accessToken), t) IN
         IF v.err # ""
         THEN [status |-> 401, claims |-> <<>>]
         ELSE [status |-> 0, claims |-> v.claims]

GetUserIDFromContext(claims) == IF claims = <<>> THEN <<>> ELSE <<claims[1].user_id>>

\* ------------------------------------------------------------ requests
NoRequest ==
    [kind |-> "none", pc |-> "done", at |-> 0, cookie |-> <<>>, header |-> EmptyStr,
     user |-> <<>>, stored |-> <<>>, access |-> <<>>, refresh |-> <<>>,
     status |-> 0, setCookie |-> <<>>, cleared |-> FALSE, inserted |-> FALSE,
     failedAt |-> "", claims |-> <<>>, pre |-> {}, args |-> <<>>, tx |-> <<>>,
     shown |-> {}, error |-> <<>>]

Respond(r, status) == [r EXCEPT !.pc = "done", !.status = status]

Fail(r, status, where) == [r EXCEPT !.pc = "done", !.status = status, !.failedAt = where]

\* helper.RespondError(w, r, appError)
RespondError(r, appError, where) ==
    [Fail(r, appError.HTTPStatus, where) EXCEPT !.error = <<appError>>]

InFlight(s) == req[s].pc # "done"

\* a new request takes the first free slot
Accept(s) ==
    /\ started < MaxRequests
    /\ ~InFlight(s)
    /\ \A x \in Slots : x < s => InFlight(x)
    /\ started' = started + 1

Active(r, t) == r.revoked_at = NULL /\ ~(r.expires_at < t)

ActiveTokensOf(rows, u, t) == {r.token_hash : r \in {x \in rows : x.user_id = u /\ Active(x, t)}}

\* what a client can send: tokens it was handed, or strings of its own making
IsRefresh(t) == t.key = RefreshSecret

IsAccess(t) == t.key = AccessSecret

RefreshCookies == {<<>>} \cup {<<t>> : t \in {x \in delivered : IsRefresh(x)} \cup BadTokens}

OwnCookies == {<<t>> : t \in {x \in delivered : IsRefresh(x)}}

BearerHeaders == {EmptyStr} \cup {Str(BearerPrefix, <<t>>) : t \in {x \in delivered : IsAccess(x)}}

Headers ==
    {EmptyStr, Str(BearerPrefix, <<>>)}
    \cup {Str(BearerPrefix, <<t>>) : t \in delivered \cup BadTokens}
    \cup {Str(<<"B", "a", "s", "i", "c", " ">>, <<t>>) : t \in delivered}
    \cup {Str(<<"b", "e", "a", "r", "e", "r", " ">>, <<t>>) : t \in delivered}
    \cup {Str(<<>>, <<t>>) : t \in delivered}
    \cup {Str(BearerPrefix \o <<" ">>, <<t>>) : t \in delivered}

Passwords == {"correct horse", "wrong horse", "short"}

Emails == {"u1@example.com", "u2@example.com", "nobody@example.com"}

Started(cfg) ==
    /\ now = 0
    /\ ticks = 0
    /\ started = 0
    /\ users = [u \in UserIDs |->
                  [email |-> IF u = "u1" THEN "u1@example.com" ELSE "u2@example.com",
                   password_hash |-> HashPassword("correct horse"),
                   user_type |-> IF u = "u1" THEN "employee" ELSE "admin"]]
    /\ ledger = {}
    /\ req = [s \in Slots |-> NoRequest]
    /\ delivered = {}
    /\ rotated = {}
    /\ loggedOut = {}
    /\ loggedOutAll = {}
    /\ lookup = NoLookup
    /\ config = cfg
    /\ teams = {}
    /\ team_members = {}
    /\ tasks = {}
    /\ validated = NoValidation

Init == Started(NewApplication("access-secret", "refresh-secret"))

\* ------------------------------------------------------------ POST /auth/login
\* variant: an unknown email is answered 404
LoginTellingApart(s, email, password) ==
    /\ Accept(s)
    /\ LET r0 == [NoRequest EXCEPT !.kind = "login", !.at = now]
           e == NormalizeEmail(email)
           user == GetUserByEmail(e) IN
       req' = [req EXCEPT ![s] =
                 IF InvalidEmail(e) \/ Len(password) < MinPasswordLen
                 THEN RespondError(r0, InvalidCredentials, "input")
                 ELSE IF user = <<>> THEN RespondError(r0, NotFound("user not found"), "email")
                 ELSE IF ~VerifyPassword(password, user[1].password_hash)
                 THEN RespondError(r0, InvalidCredentials, "password")
                 ELSE [r0 EXCEPT !.pc = "revokeAll", !.user = user,
                          !.access = <<MintAccessToken(user[1].id, user[1].email, user[1].user_type, now)>>,
                          !.refresh = <<MintRefreshToken(user[1].id, now)>>]]
    /\ UNCHANGED <<now, ticks, users, ledger, delivered, rotated, loggedOut, loggedOutAll, lookup, config, teams, team_members, tasks, validated>>

\* up to the minting of both tokens; `at` is the handler's `now`
Login(s, email, password) ==
    /\ Accept(s)
    /\ LET r0 == [NoRequest EXCEPT !.kind = "login", !.at = now]
           e == NormalizeEmail(email)
           user == GetUserByEmail(e) IN
       req' = [req EXCEPT ![s] =
                 IF InvalidEmail(e) \/ Len(password) < MinPasswordLen
                 THEN RespondError(r0, InvalidCredentials, "input")
                 ELSE IF user = <<>> THEN RespondError(r0, InvalidCredentials, "email")
                 ELSE IF ~VerifyPassword(password, user[1].password_hash)
                 THEN RespondError(r0, InvalidCredentials, "password")
                 ELSE [r0 EXCEPT !.pc = "revokeAll", !.user = user,
                          !.access = <<MintAccessToken(user[1].id, user[1].email, user[1].user_type, now)>>,
                          !.refresh = <<MintRefreshToken(user[1].id, now)>>]]
    /\ UNCHANGED <<now, ticks, users, ledger, delivered, rotated, loggedOut, loggedOutAll, lookup, config, teams, team_members, tasks, validated>>

\* _ = h.refreshStore.RevokeAllForUser(ctx, user.ID, now)
LoginRevokeAll(s) ==
    /\ req[s].kind = "login" /\ req[s].pc = "revokeAll"
    /\ ledger' = RevokeAllForUser(ledger, req[s].user[1].id, req[s].at).rows
    /\ req' = [req EXCEPT ![s].pc = "create"]
    /\ UNCHANGED <<now, ticks, started, users, delivered, rotated, loggedOut, loggedOutAll, lookup, config, teams, team_members, tasks, validated>>

LoginCreate(s) ==
    /\ req[s].kind = "login" /\ req[s].pc = "create"
    /\ LET r == req[s]
           res == Create(ledger, r.user[1].id, Sha256Hex(r.refresh[1]), r.at + LedgerLifetime, now) IN
       IF res.err # ""
       THEN /\ req' = [req EXCEPT ![s] = Fail(r, 500, "create")]
            /\ UNCHANGED <<ledger, delivered>>
       ELSE /\ ledger' = res.rows
            /\ req' = [req EXCEPT ![s] = Respond([r EXCEPT !.inserted = TRUE, !.setCookie = r.refresh], 200)]
            /\ delivered' = delivered \cup {r.access[1], r.refresh[1]}
    /\ UNCHANGED <<now, ticks, started, users, rotated, loggedOut, loggedOutAll, lookup, config, teams, team_members, tasks, validated>>

\* ------------------------------------------------------------ POST /auth/refresh
\* cookie, ValidateRefreshToken and GetByHash
RefreshAccessToken(s, cookie) ==
    /\ Accept(s)
    /\ LET r0 == [NoRequest EXCEPT !.kind = "refresh", !.at = now, !.cookie = cookie,
                     !.pre = IF cookie = <<>> THEN {}
                             ELSE {e \in {"rotated", "loggedOut", "loggedOutAll"} :
                                     \/ e = "rotated" /\ cookie[1] \in rotated
                                     \/ e = "loggedOut" /\ cookie[1] \in loggedOut
                                     \/ e = "loggedOutAll" /\ cookie[1] \in loggedOutAll}] IN
       req' = [req EXCEPT ![s] =
                 IF cookie = <<>> THEN Fail(r0, 401, "cookie")
                 ELSE IF ValidateRefreshToken(cookie[1], now).err # "" THEN Fail(r0, 401, "validate")
                 ELSE LET got == GetByHash(ledger, Sha256Hex(cookie[1]), now) IN
                      IF got.err # "" THEN Fail(r0, 401, "lookup")
                      ELSE [r0 EXCEPT !.pc = "getUser", !.stored = got.row]]
    /\ UNCHANGED <<now, ticks, users, ledger, delivered, rotated, loggedOut, loggedOutAll, lookup, config, teams, team_members, tasks, validated>>

\* GetUserByID and MintAccessToken
RefreshGetUser(s) ==
    /\ req[s].kind = "refresh" /\ req[s].pc = "getUser"
    /\ LET r == req[s]
           user == GetUserByID(r.stored[1].user_id) IN
       req' = [req EXCEPT ![s] =
                 IF user = <<>> THEN Fail(r, 500, "getUser")
                 ELSE [r EXCEPT !.pc = "revoke", !.user = user,
                         !.access = <<MintAccessToken(user[1].id, user[1].email, user[1].user_type, now)>>]]
    /\ UNCHANGED <<now, ticks, started, users, ledger, delivered, rotated, loggedOut, loggedOutAll, lookup, config, teams, team_members, tasks, validated>>

\* variant: the successor is inserted without revoking the old record
RotateWithoutRevoke(s) ==
    /\ req[s].kind = "refresh" /\ req[s].pc = "revoke"
    /\ req' = [req EXCEPT ![s].pc = "create"]
    /\ UNCHANGED <<now, ticks, started, users, ledger, delivered, rotated, loggedOut, loggedOutAll, lookup, config, teams, team_members, tasks, validated>>

\* rotateRefresh: Revoke of the old hash
RotateRevoke(s) ==
    /\ req[s].kind = "refresh" /\ req[s].pc = "revoke"
    /\ LET r == req[s]
           res == Revoke(ledger, r.stored[1].token_hash, now) IN
       IF res.err # ""
       THEN /\ req' = [req EXCEPT ![s] = Fail(r, 500, "revoke")]
            /\ UNCHANGED ledger
       ELSE /\ req' = [req EXCEPT ![s].pc = "create"]
            /\ ledger' = res.rows
    /\ UNCHANGED <<now, ticks, started, users, delivered, rotated, loggedOut, loggedOutAll, lookup, config, teams, team_members, tasks, validated>>

\* variant: a failed insert of the successor is answered 401 like the other
\* refresh failures
RotateCreateUnauthorized(s) ==
    /\ req[s].kind = "refresh" /\ req[s].pc = "create"
    /\ LET r == req[s]
           refreshToken == MintRefreshToken(r.user[1].id, now)
           res == Create(ledger, r.user[1].id, Sha256Hex(refreshToken), now + LedgerLifetime, now) IN
       IF res.err # ""
       THEN /\ req' = [req EXCEPT ![s] = Fail([r EXCEPT !.refresh = <<refreshToken>>], 401, "create")]
            /\ UNCHANGED <<ledger, delivered, rotated>>
       ELSE /\ ledger' = res.rows
            /\ req' = [req EXCEPT ![s] =
                         Respond([r EXCEPT !.refresh = <<refreshToken>>, !.inserted = TRUE,
                                           !.setCookie = <<refreshToken>>], 200)]
            /\ delivered' = delivered \cup {r.access[1], refreshToken}
            /\ rotated' = rotated \cup {r.cookie[1]}
    /\ UNCHANGED <<now, ticks, started, users, loggedOut, loggedOutAll, lookup, config, teams, team_members, tasks, validated>>

\* rotateRefresh: MintRefreshToken, Create, cookie; then the 200 response
RotateCreate(s) ==
    /\ req[s].kind = "refresh" /\ req[s].pc = "create"
    /\ LET r == req[s]
           refreshToken == MintRefreshToken(r.user[1].id, now)
           res == Create(ledger, r.user[1].id, Sha256Hex(refreshToken), now + LedgerLifetime, now) IN
       IF res.err # ""
       THEN /\ req' = [req EXCEPT ![s] = Fail([r EXCEPT !.refresh = <<refreshToken>>], 500, "create")]
            /\ UNCHANGED <<ledger, delivered, rotated>>
       ELSE /\ ledger' = res.rows
            /\ req' = [req EXCEPT ![s] =
                         Respond([r EXCEPT !.refresh = <<refreshToken>>, !.inserted = TRUE,
                                           !.setCookie = <<refreshToken>>], 200)]
            /\ delivered' = delivered \cup {r.access[1], refreshToken}
            /\ rotated' = rotated \cup {r.cookie[1]}
    /\ UNCHANGED <<now, ticks, started, users, loggedOut, loggedOutAll, lookup, config, teams, team_members, tasks, validated>>

\* ------------------------------------------------------------ POST /auth/logout
Logout(s, cookie) ==
    /\ Accept(s)
    /\ LET r0 == [NoRequest EXCEPT !.kind = "logout", !.at = now, !.cookie = cookie, !.cleared = TRUE] IN
       IF cookie = <<>>
       THEN /\ req' = [req EXCEPT ![s] = Respond(r0, 200)]
            /\ UNCHANGED <<ledger, loggedOut>>
       ELSE /\ ledger' = Revoke(ledger, Sha256Hex(cookie[1]), now).rows
            /\ req' = [req EXCEPT ![s] = Respond(r0, 200)]
            /\ loggedOut' = loggedOut \cup {cookie[1]}
    /\ UNCHANGED <<now, ticks, users, delivered, rotated, loggedOutAll, lookup, config, teams, team_members, tasks, validated>>

\* ------------------------------------------------------------ POST /auth/logout-all
\* variant: the cookie is cleared but the ledger is not written
LogoutFromAllDevicesCookieOnly(s, header) ==
    /\ Accept(s)
    /\ LET r0 == [NoRequest EXCEPT !.kind = "logoutAll", !.at = now, !.header = header]
           auth == RequireAuth(header, now)
           userID == GetUserIDFromContext(auth.claims) IN
       IF auth.status # 0
       THEN /\ req' = [req EXCEPT ![s] = Fail(r0, auth.status, "guard")]
            /\ UNCHANGED loggedOutAll
       ELSE /\ req' = [req EXCEPT ![s] =
                         Respond([r0 EXCEPT !.claims = auth.claims, !.user = GetUserByID(userID[1]),
                                            !.cleared = TRUE], 200)]
            /\ loggedOutAll' = loggedOutAll \cup
                   {t \in delivered : IsRefresh(t) /\ t.user_id = userID[1]}
    /\ UNCHANGED <<now, ticks, users, ledger, delivered, rotated, loggedOut, lookup, config, teams, team_members, tasks, validated>>

LogoutFromAllDevices(s, header) ==
    /\ Accept(s)
    /\ LET r0 == [NoRequest EXCEPT !.kind = "logoutAll", !.at = now, !.header = header]
           auth == RequireAuth(header, now)
           userID == GetUserIDFromContext(auth.claims) IN
       IF auth.status # 0
       THEN /\ req' = [req EXCEPT ![s] = Fail(r0, auth.status, "guard")]
            /\ UNCHANGED <<ledger, loggedOutAll>>
       ELSE LET res == RevokeAllForUser(ledger, userID[1], now)
                r1 == [r0 EXCEPT !.claims = auth.claims, !.user = GetUserByID(userID[1])] IN
            IF res.err # ""
            THEN /\ req' = [req EXCEPT ![s] = Fail(r1, 500, "revokeAll")]
                 /\ UNCHANGED <<ledger, loggedOutAll>>
            ELSE /\ ledger' = res.rows
                 /\ req' = [req EXCEPT ![s] = Respond([r1 EXCEPT !.cleared = TRUE], 200)]
                 /\ loggedOutAll' = loggedOutAll \cup
                        {t \in delivered : IsRefresh(t) /\ t.user_id = userID[1]}
    /\ UNCHANGED <<now, ticks, users, delivered, rotated, loggedOut, lookup, config, teams, team_members, tasks, validated>>

\* ------------------------------------------------------------ GET /users (protected)
ListUsers(s, header) ==
    /\ Accept(s)
    /\ LET r0 == [NoRequest EXCEPT !.kind = "listUsers", !.at = now, !.header = header]
           auth == RequireAuth(header, now) IN
       req' = [req EXCEPT ![s] =
                 IF auth.status # 0 THEN Fail(r0, auth.status, "guard")
                 ELSE Respond([r0 EXCEPT !.claims = auth.claims], 200)]
    /\ UNCHANGED <<now, ticks, users, ledger, delivered, rotated, loggedOut, loggedOutAll, lookup, config, teams, team_members, tasks, validated>>

\* ------------------------------------------------------------ maintenance
CleanupExpiredTokens ==
    /\ ledger' = DeleteExpired(ledger, now - CleanupAge)
    /\ UNCHANGED <<now, ticks, started, users, req, delivered, rotated, loggedOut, loggedOutAll, lookup, config, teams, team_members, tasks, validated>>

\* ------------------------------------------------------------ the clock
\* A request is bounded by its context timeout, so only single seconds pass
\* while one is in flight.  Before the first row exists the origin of the clock
\* is arbitrary, so time starts to count with the first request.  Two jumps of a
\* token lifetime carry a row past the cleanup cutoff.
Jumps == {1, RefreshTokenExpiry}

Tick(d) ==
    /\ ticks < MaxTicks
    /\ started < MaxRequests \/ \E s \in Slots : InFlight(s)
    /\ ledger # {} \/ \E s \in Slots : InFlight(s)
    /\ d = 1 \/ \A s \in Slots : ~InFlight(s)
    /\ now' = now + d
    /\ ticks' = ticks + 1
    /\ lookup' = NoLookup
    /\ UNCHANGED <<started, users, ledger, req, delivered, rotated, loggedOut, loggedOutAll, config, teams, team_members, tasks, validated>>

\* ------------------------------------------------------------ specifications
\* Sessions: concurrent login, refresh, logout and logout-all requests of one
\* account, from any number of its devices.  The sessions of two accounts side
\* by side are in GuardSpec.
SessionEmails == {"u1@example.com", "nobody@example.com"}

Next ==
    \/ \E s \in Slots, email \in SessionEmails, password \in Passwords : Login(s, email, password)
    \/ \E s \in Slots : LoginRevokeAll(s)
    \/ \E s \in Slots : LoginCreate(s)
    \/ \E s \in Slots, cookie \in RefreshCookies : RefreshAccessToken(s, cookie)
    \/ \E s \in Slots : RefreshGetUser(s)
    \/ \E s \in Slots : RotateRevoke(s)
    \/ \E s \in Slots : RotateCreate(s)
    \/ \E s \in Slots, cookie \in RefreshCookies : Logout(s, cookie)
    \/ \E s \in Slots, header \in BearerHeaders : LogoutFromAllDevices(s, header)
    \/ CleanupExpiredTokens
    \/ \E d \in Jumps : Tick(d)

Spec == Init /\ [][Next]_vars

\* The ledger by itself: the operations of RefreshTokenStore called directly.
StoreTokens == {MintRefreshToken(u, 0) : u \in UserIDs}

StoreCreate(tok, expiresAt) ==
    /\ ledger' = Create(ledger, tok.user_id, Sha256Hex(tok), expiresAt, now).rows
    /\ lookup' = NoLookup
    /\ UNCHANGED <<now, ticks, started, users, req, delivered, rotated, loggedOut, loggedOutAll, config, teams, team_members, tasks, validated>>

StoreGetByHash(tok) ==
    /\ LET got == GetByHash(ledger, Sha256Hex(tok), now) IN
       lookup' = [hash |-> <<Sha256Hex(tok)>>, err |-> got.err, row |-> got.row]
    /\ UNCHANGED <<now, ticks, started, users, ledger, req, delivered, rotated, loggedOut, loggedOutAll, config, teams, team_members, tasks, validated>>

StoreRevoke(tok) ==
    /\ ledger' = Revoke(ledger, Sha256Hex(tok), now).rows
    /\ lookup' = NoLookup
    /\ UNCHANGED <<now, ticks, started, users, req, delivered, rotated, loggedOut, loggedOutAll, config, teams, team_members, tasks, validated>>

StoreRevokeAllForUser(userID) ==
    /\ ledger' = RevokeAllForUser(ledger, userID, now).rows
    /\ lookup' = NoLookup
    /\ UNCHANGED <<now, ticks, started, users, req, delivered, rotated, loggedOut, loggedOutAll, config, teams, team_members, tasks, validated>>

StoreDeleteExpired(before) ==
    /\ ledger' = DeleteExpired(ledger, before)
    /\ lookup' = NoLookup
    /\ UNCHANGED <<now, ticks, started, users, req, delivered, rotated, loggedOut, loggedOutAll, config, teams, team_members, tasks, validated>>

LedgerNext ==
    \/ \E tok \in StoreTokens, e \in {now - 1, now, now + 1, now + LedgerLifetime} : StoreCreate(tok, e)
    \/ \E tok \in StoreTokens : StoreGetByHash(tok)
    \/ \E tok \in StoreTokens : StoreRevoke(tok)
    \/ \E u \in UserIDs : StoreRevokeAllForUser(u)
    \/ \E before \in {now - CleanupAge, now} : StoreDeleteExpired(before)
    \/ \E d \in {1, LedgerLifetime} : Tick(d)

LedgerSpec == Init /\ [][LedgerNext]_vars

\* Two accounts, one request at a time: any Authorization header on a
\* protected route and any cookie on logout, between the session operations
\* of the two users.
GuardNext ==
    \/ \E email \in {"u1@example.com", "u2@example.com"} : Login(1, email, "correct horse")
    \/ LoginRevokeAll(1)
    \/ LoginCreate(1)
    \/ \E cookie \in OwnCookies : RefreshAccessToken(1, cookie)
    \/ RefreshGetUser(1)
    \/ RotateRevoke(1)
    \/ RotateCreate(1)
    \/ \E cookie \in RefreshCookies : Logout(1, cookie)
    \/ \E header \in BearerHeaders : LogoutFromAllDevices(1, header)
    \/ \E header \in Headers : ListUsers(1, header)
    \/ \E d \in {1, AccessTokenExpiry + Leeway} : Tick(d)

GuardSpec == Init /\ [][GuardNext]_vars

\* ------------------------------------------------------------ properties
\* the slot the next accepted request runs in
FreeSlot(s) == ~InFlight(s) /\ \A x \in Slots : x < s => InFlight(x)

Rejected401(r) ==
    /\ r.pc = "done" /\ r.status = 401
    /\ r.access = <<>> /\ ~r.inserted /\ r.setCookie = <<>>

LookedUp == {r \in ledger : r.token_hash = lookup.hash[1]}

LookupReasons ==
    /\ LookedUp = {} => lookup.err = "token not found"
    /\ (\E r \in LookedUp : r.revoked_at # NULL) => lookup.err = "token has been revoked"
    /\ (\E r \in LookedUp : r.revoked_at = NULL /\ r.expires_at < now) => lookup.err = "token has expired"
    /\ lookup.err = "" => lookup.row # <<>> /\ lookup.row[1] \in LookedUp

LoginLeavesOneSession ==
    [][\A s \in Slots :
         (/\ req[s].kind = "login" /\ req[s].pc = "create"
          /\ req'[s].pc = "done" /\ req'[s].status = 200)
         => ActiveTokensOf(ledger', req[s].user[1].id, now') = {Sha256Hex(req[s].refresh[1])}]_vars

\* C5: after a logout-all of user U has returned 200, a refresh request that
\* presents a refresh token handed to U before that is answered 401.
NoRefreshAfterLogoutAll ==
    \A s \in Slots :
        (req[s].kind = "refresh" /\ "loggedOutAll" \in req[s].pre) => Rejected401(req[s])

NoRefreshAfterLogoutAllWitness ==
    \E s \in Slots :
        /\ req[s].kind = "refresh" /\ "loggedOutAll" \in req[s].pre
        /\ req[s].pc = "done" /\ req[s].failedAt = "lookup"
        /\ req[s].cookie[1].exp > now

\* C6 as stated: a logout-all that passes the guard answers 200, however many
\* active refresh tokens its user holds, and leaves the user without one.
LogoutAllAlways200 ==
    [][\A s \in Slots :
         (/\ started' = started + 1 /\ FreeSlot(s)
          /\ req'[s].kind = "logoutAll" /\ req'[s].failedAt # "guard")
         => /\ req'[s].status = 200
            /\ ActiveTokensOf(ledger', req'[s].claims[1].user_id, now') = {}]_vars

\* C7 as stated: a refresh that fails because of its cookie or of the state
\* of the presented token (missing, invalid, no row, revoked, expired, also
\* when revoked between its lookup and its revoke) is answered 401.
RefreshFailuresAre401 ==
    \A s \in Slots :
        (/\ req[s].kind = "refresh" /\ req[s].pc = "done"
         /\ req[s].failedAt \in {"cookie", "validate", "lookup", "revoke"})
        => req[s].status = 401

\* C8: a logout answers 200 whatever its cookie; it changes nothing in the
\* ledger but the unrevoked row whose hash is that of the cookie, which
\* becomes revoked; and a refresh that presents the cookie's token after
\* the logout is answered 401.
LogoutRevokesOnlyPresented ==
    [][/\ \A s \in Slots :
            (started' = started + 1 /\ FreeSlot(s) /\ req'[s].kind = "logout")
            => LET h == {Sha256Hex(req'[s].cookie[i]) : i \in 1..Len(req'[s].cookie)} IN
               /\ req'[s].pc = "done" /\ req'[s].status = 200 /\ req'[s].cleared
               /\ \A r \in ledger : r.token_hash \notin h \/ r.revoked_at # NULL => r \in ledger'
               /\ \A r \in ledger' :
                     \/ r \in ledger
                     \/ /\ r.token_hash \in h /\ r.revoked_at = now
                        /\ [r EXCEPT !.revoked_at = NULL] \in ledger
               /\ Cardinality(ledger') = Cardinality(ledger)
               /\ \A r \in ledger' : r.token_hash \in h => r.revoked_at # NULL
       /\ \A s \in Slots :
            (req'[s].kind = "refresh" /\ "loggedOut" \in req'[s].pre) => Rejected401(req'[s])]_vars

LogoutRevokesOnlyPresentedWitness ==
    \E s \in Slots :
        /\ req[s].kind = "logout" /\ req[s].pc = "done" /\ req[s].status = 200
        /\ req[s].cookie # <<>>
        /\ \E r \in ledger : r.token_hash = Sha256Hex(req[s].cookie[1]) /\ r.revoked_at = req[s].at
        /\ \E r \in ledger : r.user_id # req[s].cookie[1].user_id /\ Active(r, now)

\* the header is exactly "Bearer " followed by one token string
BearerForm(h) == h.text = BearerPrefix /\ h.tok # <<>>

Guarded(r) == r.kind \in {"listUsers", "logoutAll"} /\ r.pc = "done"

\* C9: behind RequireAuth the handler runs only for a header of the form
\* "Bearer <token>" whose token ValidateAccessToken accepts at that time, and
\* then with exactly that token's user_id, email and user_type in the
\* context; every other header is answered 401 and the handler does not run.
GuardAdmitsOnlyValidBearer ==
    \A s \in Slots :
        Guarded(req[s]) =>
            LET h == req[s].header IN
            IF BearerForm(h) /\ ValidateAccessToken(h.tok[1], req[s].at).err = ""
            THEN /\ req[s].failedAt # "guard"
                 /\ req[s].claims = <<[user_id |-> h.tok[1].user_id, email |-> h.tok[1].email,
                                       user_type |-> h.tok[1].user_type]>>
            ELSE /\ req[s].status = 401 /\ req[s].failedAt = "guard"
                 /\ req[s].claims = <<>> /\ ~req[s].cleared

GuardAdmitsOnlyValidBearerWitness ==
    \E s \in Slots :
        /\ req[s].kind = "listUsers" /\ req[s].pc = "done" /\ req[s].status = 200
        /\ BearerForm(req[s].header)
        /\ req[s].claims # <<>> /\ req[s].claims[1].user_type = "admin"

\* C10: an access token handed out by login or refresh is accepted by the
\* guard at every time before its own expiry (plus leeway), whatever has
\* happened to the refresh tokens of its user since.
AccessTokenOutlivesSession ==
    \A s \in Slots :
        (/\ req[s].kind = "listUsers" /\ req[s].pc = "done"
         /\ BearerForm(req[s].header)
         /\ req[s].header.tok[1] \in delivered /\ IsAccess(req[s].header.tok[1])
         /\ req[s].at < req[s].header.tok[1].exp + Leeway)
        => /\ req[s].status = 200
           /\ req[s].claims # <<>> /\ req[s].claims[1].user_id = req[s].header.tok[1].user_id

AccessTokenOutlivesSessionWitness ==
    \E s \in Slots :
        /\ req[s].kind = "listUsers" /\ req[s].pc = "done" /\ req[s].status = 200
        /\ req[s].at = now
        /\ \E r \in ledger : r.user_id = req[s].claims[1].user_id /\ r.revoked_at # NULL
        /\ ActiveTokensOf(ledger, req[s].claims[1].user_id, now) = {}

\* ------------------------------------------------------------ token kinds
\* Startup with any pair of secrets the process accepts; then one request at
\* a time, each token that was handed out presented as the refresh cookie and
\* as the bearer token.
Secrets == {"", "k1", "k2"}

StartupInit ==
    \E a \in Secrets, r \in Secrets :
        /\ ~NewApplication(a, r).panic
        /\ Started(NewApplication(a, r))

StartupNext ==
    \/ \E email \in {"u1@example.com", "u2@example.com"} : Login(1, email, "correct horse")
    \/ LoginRevokeAll(1)
    \/ LoginCreate(1)
    \/ \E t \in delivered : RefreshAccessToken(1, <<t>>)
    \/ RefreshGetUser(1)
    \/ RotateRevoke(1)
    \/ RotateCreate(1)
    \/ \E t \in delivered : ListUsers(1, Str(BearerPrefix, <<t>>))
    \/ \E t \in delivered : LogoutFromAllDevices(1, Str(BearerPrefix, <<t>>))
    \/ Tick(1)

StartupSpec == StartupInit /\ [][StartupNext]_vars

\* what MintRefreshToken and MintAccessToken produce
MintedRefresh(t) == t = MintRefreshToken(t.user_id, t.iat)

MintedAccess(t) == \E ty \in {"employee", "admin", "task_manager"} :
                       t = MintAccessToken(t.user_id, t.email, ty, t.iat)

\* a refresh token behind RequireAuth is answered 401 by the guard
RefreshTokenNeverGuards ==
    \A s \in Slots :
        (/\ Guarded(req[s]) /\ BearerForm(req[s].header)
         /\ MintedRefresh(req[s].header.tok[1]))
        => req[s].status = 401 /\ req[s].failedAt = "guard"

\* an access token as the refresh cookie never refreshes
AccessTokenNeverRefreshes ==
    \A s \in Slots :
        (/\ req[s].kind = "refresh" /\ req[s].cookie # <<>>
         /\ MintedAccess(req[s].cookie[1]))
        => /\ req[s].status # 200 /\ ~req[s].inserted /\ req[s].setCookie = <<>>
           /\ req[s].pc = "done" /\ req[s].status = 401

\* C11: whatever pair of secrets the process started with, a refresh token is
\* refused where an access token is required, and an access token presented
\* as the refresh cookie does not refresh.
TokenKindsSeparate == RefreshTokenNeverGuards /\ AccessTokenNeverRefreshes

\* ------------------------------------------------------------ the manager alone
\* MintAccessToken and ValidateAccessToken called directly, on the tokens the
\* manager minted and on copies of them that differ in one part.
UserTypes == {"employee", "admin", "task_manager"}

Altered(t) ==
    {[t EXCEPT !.alg = "HS384"], [t EXCEPT !.alg = "none"],
     [t EXCEPT !.key = "attacker-secret"], [t EXCEPT !.key = RefreshSecret],
     [t EXCEPT !.iss = "someone-else"],
     [t EXCEPT !.aud = "another audience"],
     [t EXCEPT !.exp = NULL], [t EXCEPT !.exp = t.iat - Leeway],
     [t EXCEPT !.nbf = t.iat + Leeway + 1]}

ManagerMint(userID, userType) ==
    /\ Cardinality(delivered) < MaxMinted
    /\ delivered' = delivered \cup {MintAccessToken(userID, users[userID].email, userType, now)}
    /\ validated' = NoValidation
    /\ UNCHANGED <<now, ticks, started, users, ledger, req, rotated, loggedOut, loggedOutAll, lookup,
                   config, teams, team_members, tasks>>

ManagerValidate(tok) ==
    /\ LET v == ValidateAccessToken(tok, now) IN
       validated' = [tok |-> <<tok>>, at |-> now, err |-> v.err, claims |-> v.claims]
    /\ UNCHANGED <<now, ticks, started, users, ledger, req, delivered, rotated, loggedOut, loggedOutAll,
                   lookup, config, teams, team_members, tasks>>

Elapse(d) ==
    /\ ticks < MaxTicks
    /\ delivered # {}
    /\ now' = now + d
    /\ ticks' = ticks + 1
    /\ validated' = NoValidation
    /\ UNCHANGED <<started, users, ledger, req, delivered, rotated, loggedOut, loggedOutAll, lookup,
                   config, teams, team_members, tasks>>

ManagerNext ==
    \/ \E u \in UserIDs, ty \in UserTypes : ManagerMint(u, ty)
    \/ \E t \in delivered : ManagerValidate(t)
    \/ \E t \in delivered : \E a \in Altered(t) : ManagerValidate(a)
    \/ \E d \in {1, AccessTokenExpiry + Leeway - 1, AccessTokenExpiry + Leeway} : Elapse(d)

ManagerSpec == Init /\ [][ManagerNext]_vars

\* C12: validate_access accepts a token exactly when it is signed with HS256
\* under the access secret, names the configured issuer and the audience
\* written at minting, carries an expiration that has not passed and a
\* not-before that is reached, the two times taken with 30 s leeway.
ValidateAccessChecksAll ==
    validated.tok # <<>> =>
        LET t == validated.tok[1] IN
        validated.err = "" <=>
            /\ t.alg = "HS256" /\ t.key = AccessSecret
            /\ t.iss = Issuer
            /\ t.aud = Audience
            /\ t.exp # NULL /\ validated.at - Leeway < t.exp
            /\ t.nbf <= validated.at + Leeway

\* C13 as stated: the access token minted at t0 validates at every time from
\* t0 to t0 + 15 min + 30 s inclusive, with the values it was minted from,
\* and fails at every later time.
AccessTokenLifetimeInclusive ==
    (validated.tok # <<>> /\ validated.tok[1] \in delivered) =>
        LET t == validated.tok[1] IN
        IF validated.at <= t.iat + AccessTokenExpiry + Leeway
        THEN /\ validated.err = ""
             /\ validated.claims = <<[user_id |-> t.user_id, email |-> users[t.user_id].email,
                                      user_type |-> t.user_type]>>
        ELSE validated.err # ""

\* C13: the access token minted at t0 validates at every time from t0 up to
\* but not including t0 + 15 min + 30 s, with the values it was minted from,
\* and fails at t0 + 15 min + 30 s and at every later time.
AccessTokenLifetime ==
    (validated.tok # <<>> /\ validated.tok[1] \in delivered) =>
        LET t == validated.tok[1] IN
        IF validated.at < t.iat + AccessTokenExpiry + Leeway
        THEN /\ validated.err = ""
             /\ validated.claims = <<[user_id |-> t.user_id, email |-> users[t.user_id].email,
                                      user_type |-> t.user_type]>>
        ELSE validated.err # ""

AccessTokenLifetimeWitness ==
    /\ validated.tok # <<>> /\ validated.tok[1] \in delivered
    /\ validated.at = validated.tok[1].iat + AccessTokenExpiry + Leeway - 1
    /\ validated.err = "" /\ validated.claims # <<>>
    /\ validated.claims[1].user_type = "task_manager"

\* ============================================================== user types
\* ------------------------------------------------------------ user store
AllUserIDs == UserIDs \cup {"u3"}

\* users.id is generated by the database
NewUserID(us) == CHOOSE id \in AllUserIDs \ DOMAIN us : TRUE

UserCreate(us, email, hashedPassword, userType) ==
    IF EmailTaken(us, email)
    THEN [err |-> "email already exists", users |-> us, id |-> <<>>]
    ELSE LET id == NewUserID(us) IN
         [err |-> "", id |-> <<id>>,
          users |-> [u \in DOMAIN us \cup {id} |->
                        IF u = id THEN [email |-> email, password_hash |-> hashedPassword,
                                        user_type |-> userType]
                        ELSE us[u]]]

UpdateUserType(us, userID, userType) ==
    IF userID \notin DOMAIN us
    THEN [err |-> "not found", users |-> us]
    ELSE [err |-> "", users |-> [us EXCEPT ![userID].user_type = userType]]

\* uuid.Parse of a path or body parameter
NotAUUID == "not-a-uuid"

\* ------------------------------------------------------------ handlers
\* Login and refresh hand the client an access token minted from the stored
\* row of the user; behind RequireAuth nothing else of the session counts.
IssueAccessToken(u) ==
    /\ u \in DOMAIN users
    /\ Cardinality(delivered) <= MaxMinted
    /\ delivered' = delivered \cup {MintAccessToken(u, users[u].email, users[u].user_type, now)}
    /\ UNCHANGED <<now, ticks, started, users, ledger, req, rotated, loggedOut, loggedOutAll, lookup,
                   config, teams, team_members, tasks, validated>>

\* variant: the email is stored as typed
RegisterAsTyped(s, email, password) ==
    /\ Accept(s)
    /\ LET r0 == [NoRequest EXCEPT !.kind = "register", !.at = now,
                     !.args = <<[email |-> email, password |-> password]>>]
           e == email IN
       IF InvalidEmail(e)
       THEN /\ req' = [req EXCEPT ![s] = RespondError(r0, BadRequest("Invalid email address"), "input")]
            /\ UNCHANGED users
       ELSE IF Len(password) < MinPasswordLen
       THEN /\ req' = [req EXCEPT ![s] =
                         RespondError(r0, BadRequest("Password must be at least 8 characters"), "input")]
            /\ UNCHANGED users
       ELSE IF EmailTaken(users, e)
       THEN /\ req' = [req EXCEPT ![s] = RespondError(r0, EmailAlreadyExists, "create")]
            /\ UNCHANGED users
       ELSE /\ AllUserIDs \ DOMAIN users # {}
            /\ LET res == UserCreate(users, e, HashPassword(password), "employee") IN
               /\ users' = res.users
               /\ req' = [req EXCEPT ![s] =
                             Respond([r0 EXCEPT !.user = <<[id |-> res.id[1]] @@ res.users[res.id[1]]>>], 201)]
    /\ UNCHANGED <<now, ticks, ledger, delivered, rotated, loggedOut, loggedOutAll, lookup,
                   config, teams, team_members, tasks, validated>>

Register(s, email, password) ==
    /\ Accept(s)
    /\ LET r0 == [NoRequest EXCEPT !.kind = "register", !.at = now,
                     !.args = <<[email |-> email, password |-> password]>>]
           e == NormalizeEmail(email) IN
       IF InvalidEmail(e)
       THEN /\ req' = [req EXCEPT ![s] = RespondError(r0, BadRequest("Invalid email address"), "input")]
            /\ UNCHANGED users
       ELSE IF Len(password) < MinPasswordLen
       THEN /\ req' = [req EXCEPT ![s] =
                         RespondError(r0, BadRequest("Password must be at least 8 characters"), "input")]
            /\ UNCHANGED users
       ELSE IF EmailTaken(users, e)
       THEN /\ req' = [req EXCEPT ![s] = RespondError(r0, EmailAlreadyExists, "create")]
            /\ UNCHANGED users
       ELSE /\ AllUserIDs \ DOMAIN users # {}
            /\ LET res == UserCreate(users, e, HashPassword(password), "employee") IN
               /\ users' = res.users
               /\ req' = [req EXCEPT ![s] =
                             Respond([r0 EXCEPT !.user = <<[id |-> res.id[1]] @@ res.users[res.id[1]]>>], 201)]
    /\ UNCHANGED <<now, ticks, ledger, delivered, rotated, loggedOut, loggedOutAll, lookup,
                   config, teams, team_members, tasks, validated>>

\* variant: the caller's type is taken from the token's claim
HandleUpdateUserTypeByClaim(s, header, idStr, userType) ==
    /\ Accept(s)
    /\ LET r0 == [NoRequest EXCEPT !.kind = "updateUserType", !.at = now, !.header = header,
                     !.args = <<[user_id |-> idStr, user_type |-> userType]>>]
           auth == RequireAuth(header, now)
           adminID == GetUserIDFromContext(auth.claims)
           r1 == [r0 EXCEPT !.claims = auth.claims] IN
       req' = [req EXCEPT ![s] =
                 IF auth.status # 0 THEN Fail(r0, auth.status, "guard")
                 ELSE IF idStr = NotAUUID THEN Fail(r1, 400, "id")
                 ELSE IF idStr = adminID[1] THEN Fail(r1, 403, "self")
                 ELSE IF GetUserByID(adminID[1]) = <<>> THEN Fail(r1, 500, "getUser")
                 ELSE IF auth.claims[1].user_type # "admin"
                 THEN Fail([r1 EXCEPT !.user = GetUserByID(adminID[1])], 403, "admin")
                 ELSE IF userType \notin {"employee", "admin", "task_manager"}
                 THEN Fail([r1 EXCEPT !.user = GetUserByID(adminID[1])], 400, "body")
                 ELSE [r1 EXCEPT !.pc = "write", !.user = GetUserByID(adminID[1])]]
    /\ UNCHANGED <<now, ticks, users, ledger, delivered, rotated, loggedOut, loggedOutAll, lookup,
                   config, teams, team_members, tasks, validated>>

\* PATCH /auth/{user_id}/update-usertype, up to and including GetUserByID
HandleUpdateUserType(s, header, idStr, userType) ==
    /\ Accept(s)
    /\ LET r0 == [NoRequest EXCEPT !.kind = "updateUserType", !.at = now, !.header = header,
                     !.args = <<[user_id |-> idStr, user_type |-> userType]>>]
           auth == RequireAuth(header, now)
           adminID == GetUserIDFromContext(auth.claims)
           r1 == [r0 EXCEPT !.claims = auth.claims] IN
       req' = [req EXCEPT ![s] =
                 IF auth.status # 0 THEN Fail(r0, auth.status, "guard")
                 ELSE IF idStr = NotAUUID THEN Fail(r1, 400, "id")
                 ELSE IF idStr = adminID[1] THEN Fail(r1, 403, "self")
                 ELSE IF GetUserByID(adminID[1]) = <<>> THEN Fail(r1, 500, "getUser")
                 ELSE IF GetUserByID(adminID[1])[1].user_type # "admin"
                 THEN Fail([r1 EXCEPT !.user = GetUserByID(adminID[1])], 403, "admin")
                 ELSE IF userType \notin {"employee", "admin", "task_manager"}
                 THEN Fail([r1 EXCEPT !.user = GetUserByID(adminID[1])], 400, "body")
                 ELSE [r1 EXCEPT !.pc = "write", !.user = GetUserByID(adminID[1])]]
    /\ UNCHANGED <<now, ticks, users, ledger, delivered, rotated, loggedOut, loggedOutAll, lookup,
                   config, teams, team_members, tasks, validated>>

\* userStore.UpdateUserType and the response
UpdateUserTypeWrite(s) ==
    /\ req[s].kind = "updateUserType" /\ req[s].pc = "write"
    /\ LET r == req[s]
           res == UpdateUserType(users, r.args[1].user_id, r.args[1].user_type) IN
       IF res.err # ""
       THEN /\ req' = [req EXCEPT ![s] = Fail(r, 404, "update")]
            /\ UNCHANGED users
       ELSE /\ req' = [req EXCEPT ![s] = Respond(r, 200)]
            /\ users' = res.users
    /\ UNCHANGED <<now, ticks, started, ledger, delivered, rotated, loggedOut, loggedOutAll, lookup,
                   config, teams, team_members, tasks, validated>>

\* what a client can send as bearer token on the protected routes
AccessHeaders == {EmptyStr} \cup {Str(BearerPrefix, <<t>>) : t \in delivered}

RolesNext ==
    \/ \E u \in AllUserIDs : IssueAccessToken(u)
    \/ \E s \in Slots, email \in {"u3@example.com", " U3@Example.com ", "u1@example.com", "no-at-sign"},
          password \in {"correct horse", "short"} : Register(s, email, password)
    \/ \E s \in Slots, header \in AccessHeaders, idStr \in AllUserIDs \cup {NotAUUID},
          userType \in UserTypes \cup {"superuser"} : HandleUpdateUserType(s, header, idStr, userType)
    \/ \E s \in Slots : UpdateUserTypeWrite(s)

RolesSpec == Init /\ [][RolesNext]_vars

\* C39: update-usertype requests never take the last admin away: in every
\* state some user has the stored type admin, also when admins send requests
\* that target each other concurrently.
AdminsNeverDisappear == \E u \in DOMAIN users : users[u].user_type = "admin"

Caller(r) == r.claims[1].user_id

\* C14: a stored user_type changes only in the write of an update-usertype
\* request whose caller is another user and was stored as admin when the
\* request read it, and then to the requested type; a registration stores
\* type employee; a request that targets its caller or whose caller is not
\* stored as admin is answered 403 and changes nothing, and one from a caller
\* stored as admin goes ahead, whatever type the caller's token claims.
UserTypeChangesOnlyByAdmin ==
    [][/\ \A u \in DOMAIN users' :
            /\ u \notin DOMAIN users => users'[u].user_type = "employee"
            /\ (u \in DOMAIN users /\ users'[u].user_type # users[u].user_type)
               => \E s \in Slots :
                    /\ req[s].kind = "updateUserType" /\ req[s].pc = "write"
                    /\ req'[s].pc = "done" /\ req'[s].status = 200
                    /\ req[s].args[1].user_id = u /\ Caller(req[s]) # u
                    /\ req[s].user[1].user_type = "admin"
                    /\ users'[u].user_type = req[s].args[1].user_type
       /\ \A s \in Slots :
            (/\ started' = started + 1 /\ FreeSlot(s) /\ req'[s].kind = "updateUserType"
             /\ req'[s].claims # <<>> /\ req'[s].args[1].user_id # NotAUUID)
            => LET c == Caller(req'[s]) IN
               IF req'[s].args[1].user_id = c \/ users[c].user_type # "admin"
               THEN req'[s].pc = "done" /\ req'[s].status = 403 /\ users' = users
               ELSE req'[s].args[1].user_type \in UserTypes => req'[s].pc = "write"]_vars

UserTypeChangesOnlyByAdminWitness ==
    \E s \in Slots :
        /\ req[s].kind = "updateUserType" /\ req[s].pc = "done" /\ req[s].status = 200
        /\ req[s].claims[1].user_type = "employee"
        /\ users[req[s].args[1].user_id].user_type = "task_manager"
        /\ "u3" \in DOMAIN users

\* ==================================================================== teams
\* ------------------------------------------------------------ team store
TeamRoles == {"owner", "admin", "member"}

LongName == "NNNNNNNNNNNNNNNNNNNNNNNNNNNNNNNNNNNNNNNNNNNNNNNNNNNNNNNNNNNNNNNNNNNNNNNNNNNNNNNNNNNNNNNNNNNNNNNNNNNNN"

Team(id, name, ownerID) == [id |-> id, name |-> name, owner_id |-> ownerID]

TeamMember(teamID, userID, role) == [team_id |-> teamID, user_id |-> userID, role |-> role]

\* uniq_team_name and idx_uniq_team_name_ci
\* variant: only uniq_team_name, without idx_uniq_team_name_ci
NameTakenExactly(ts, name) == \E t \in ts : t.name = name

NameTaken(ts, name) == \E t \in ts : t.name = name \/ Lower(t.name) = Lower(name)

\* rows written by transactions that are still open
Pending(s) == IF InFlight(s) /\ req[s].kind = "createTeam" THEN req[s].tx ELSE <<>>

PendingTeams(s) == {Pending(s)[i] : i \in {j \in 1..Len(Pending(s)) : "name" \in DOMAIN Pending(s)[j]}}

IsMember(teamID, userID) ==
    \E m \in team_members : m.team_id = teamID /\ m.user_id = userID

IsOwnerOrAdmin(teamID, userID) ==
    \E m \in team_members : m.team_id = teamID /\ m.user_id = userID /\ m.role \in {"owner", "admin"}

\* ------------------------------------------------------------ POST /teams/
\* variant: the caller's type is taken from the token's claim
CreateTeamByClaim(s, header, rawName) ==
    /\ Accept(s)
    /\ LET r0 == [NoRequest EXCEPT !.kind = "createTeam", !.at = now, !.header = header]
           auth == RequireAuth(header, now)
           userId == GetUserIDFromContext(auth.claims)
           name == TrimSpace(rawName)
           r1 == [r0 EXCEPT !.claims = auth.claims,
                            !.args = <<[id |-> started + 1, name |-> name]>>] IN
       req' = [req EXCEPT ![s] =
                 IF auth.status # 0 THEN Fail(r0, auth.status, "guard")
                 ELSE IF GetUserByID(userId[1]) = <<>> THEN Fail(r1, 404, "getUser")
                 ELSE IF auth.claims[1].user_type \notin {"admin", "task_manager"}
                 THEN Fail([r1 EXCEPT !.user = GetUserByID(userId[1])], 403, "type")
                 ELSE IF Len(name) = 0 \/ Len(name) > 100
                 THEN Fail([r1 EXCEPT !.user = GetUserByID(userId[1])], 400, "name")
                 ELSE [r1 EXCEPT !.pc = "begin", !.user = GetUserByID(userId[1])]]
    /\ UNCHANGED <<now, ticks, users, ledger, delivered, rotated, loggedOut, loggedOutAll, lookup,
                   config, teams, team_members, tasks, validated>>

\* TeamHandler.CreateTeam up to the call of the store
CreateTeam(s, header, rawName) ==
    /\ Accept(s)
    /\ LET r0 == [NoRequest EXCEPT !.kind = "createTeam", !.at = now, !.header = header]
           auth == RequireAuth(header, now)
           userId == GetUserIDFromContext(auth.claims)
           name == TrimSpace(rawName)
           r1 == [r0 EXCEPT !.claims = auth.claims,
                            !.args = <<[id |-> started + 1, name |-> name]>>] IN
       req' = [req EXCEPT ![s] =
                 IF auth.status # 0 THEN Fail(r0, auth.status, "guard")
                 ELSE IF GetUserByID(userId[1]) = <<>> THEN Fail(r1, 404, "getUser")
                 ELSE IF GetUserByID(userId[1])[1].user_type \notin {"admin", "task_manager"}
                 THEN Fail([r1 EXCEPT !.user = GetUserByID(userId[1])], 403, "type")
                 ELSE IF Len(name) = 0 \/ Len(name) > 100
                 THEN Fail([r1 EXCEPT !.user = GetUserByID(userId[1])], 400, "name")
                 ELSE [r1 EXCEPT !.pc = "begin", !.user = GetUserByID(userId[1])]]
    /\ UNCHANGED <<now, ticks, users, ledger, delivered, rotated, loggedOut, loggedOutAll, lookup,
                   config, teams, team_members, tasks, validated>>

\* s.pool.BeginTx
BeginTx(s, ok) ==
    /\ req[s].kind = "createTeam" /\ req[s].pc = "begin"
    /\ req' = [req EXCEPT ![s] = IF ok THEN [@ EXCEPT !.pc = "insertTeam", !.tx = <<>>]
                                  ELSE Fail(@, 500, "begin")]
    /\ UNCHANGED <<now, ticks, started, users, ledger, delivered, rotated, loggedOut, loggedOutAll,
                   lookup, config, teams, team_members, tasks, validated>>

\* variant: the team row is inserted through the pool, outside the transaction
InsertTeamAutocommit(s, ok) ==
    /\ req[s].kind = "createTeam" /\ req[s].pc = "insertTeam"
    /\ LET r == req[s]
           row == Team(r.args[1].id, r.args[1].name, r.user[1].id) IN
       IF NameTaken(teams, row.name)
       THEN /\ req' = [req EXCEPT ![s] = Fail([r EXCEPT !.tx = <<>>], 409, "insertTeam")]
            /\ UNCHANGED teams
       ELSE IF ~ok
       THEN /\ req' = [req EXCEPT ![s] = Fail([r EXCEPT !.tx = <<>>], 500, "insertTeam")]
            /\ UNCHANGED teams
       ELSE /\ req' = [req EXCEPT ![s] = [r EXCEPT !.pc = "insertMember"]]
            /\ teams' = teams \cup {row}
    /\ UNCHANGED <<now, ticks, started, users, ledger, delivered, rotated, loggedOut, loggedOutAll,
                   lookup, config, team_members, tasks, validated>>

\* tx.QueryRow(insertTeam): the insert waits while an open transaction holds
\* the same name; a failure rolls the transaction back (deferred Rollback)
InsertTeam(s, ok) ==
    /\ req[s].kind = "createTeam" /\ req[s].pc = "insertTeam"
    /\ LET r == req[s]
           row == Team(r.args[1].id, r.args[1].name, r.user[1].id) IN
       /\ \A x \in Slots \ {s} : ~NameTaken(PendingTeams(x), row.name)
       /\ req' = [req EXCEPT ![s] =
                    IF NameTaken(teams, row.name)
                    THEN Fail([r EXCEPT !.tx = <<>>], 409, "insertTeam")
                    ELSE IF ~ok THEN Fail([r EXCEPT !.tx = <<>>], 500, "insertTeam")
                    ELSE [r EXCEPT !.pc = "insertMember", !.tx = <<row>>]]
    /\ UNCHANGED <<now, ticks, started, users, ledger, delivered, rotated, loggedOut, loggedOutAll,
                   lookup, config, teams, team_members, tasks, validated>>

\* tx.Exec(insertMember)
InsertMember(s, ok) ==
    /\ req[s].kind = "createTeam" /\ req[s].pc = "insertMember"
    /\ LET r == req[s]
           row == TeamMember(r.args[1].id, r.user[1].id, "owner") IN
       req' = [req EXCEPT ![s] =
                 IF ~ok THEN Fail([r EXCEPT !.tx = <<>>], 500, "insertMember")
                 ELSE [r EXCEPT !.pc = "commit", !.tx = Append(r.tx, row)]]
    /\ UNCHANGED <<now, ticks, started, users, ledger, delivered, rotated, loggedOut, loggedOutAll,
                   lookup, config, teams, team_members, tasks, validated>>

\* tx.Commit and the response
Commit(s, ok) ==
    /\ req[s].kind = "createTeam" /\ req[s].pc = "commit"
    /\ LET r == req[s]
           rows == {r.tx[i] : i \in 1..Len(r.tx)} IN
       IF ~ok
       THEN /\ req' = [req EXCEPT ![s] = Fail([r EXCEPT !.tx = <<>>], 500, "commit")]
            /\ UNCHANGED <<teams, team_members>>
       ELSE /\ req' = [req EXCEPT ![s] = Respond([r EXCEPT !.tx = <<>>], 201)]
            /\ teams' = teams \cup {x \in rows : "name" \in DOMAIN x}
            /\ team_members' = team_members \cup {x \in rows : "role" \in DOMAIN x}
    /\ UNCHANGED <<now, ticks, started, users, ledger, delivered, rotated, loggedOut, loggedOutAll,
                   lookup, config, tasks, validated>>

\* the server process dies: no request in flight is answered, and the
\* database rolls back every transaction whose connection is gone
Crash ==
    /\ \E s \in Slots : InFlight(s)
    /\ req' = [s \in Slots |-> IF InFlight(s) THEN Fail([req[s] EXCEPT !.tx = <<>>], 0, "crash")
                               ELSE req[s]]
    /\ UNCHANGED <<now, ticks, started, users, ledger, delivered, rotated, loggedOut, loggedOutAll,
                   lookup, config, teams, team_members, tasks, validated>>

TeamNames == {"Alpha", " alpha ", "Beta", "  ", LongName}

TeamsNext ==
    \/ \E u \in UserIDs : IssueAccessToken(u)
    \/ \E s \in Slots, header \in AccessHeaders, idStr \in UserIDs,
          userType \in {"employee", "task_manager"} : HandleUpdateUserType(s, header, idStr, userType)
    \/ \E s \in Slots : UpdateUserTypeWrite(s)
    \/ \E s \in Slots, header \in AccessHeaders, rawName \in TeamNames : CreateTeam(s, header, rawName)
    \/ \E s \in Slots, ok \in BOOLEAN : BeginTx(s, ok)
    \/ \E s \in Slots, ok \in BOOLEAN : InsertTeam(s, ok)
    \/ \E s \in Slots, ok \in BOOLEAN : InsertMember(s, ok)
    \/ \E s \in Slots, ok \in BOOLEAN : Commit(s, ok)
    \/ Crash

TeamsSpec == Init /\ [][TeamsNext]_vars

TeamVisible(id) == \E t \in teams : t.id = id

MembersVisible(id) == \E m \in team_members : m.team_id = id

\* C15: every visible team has the owner row of its owner_id and every
\* membership row belongs to a visible team; a CreateTeam that answered 201
\* has made both of its rows visible, and one that is still running, failed
\* at an insert or at the commit, hit a taken name or died in a crash has
\* made neither visible.
TeamCreationAtomic ==
    /\ \A t \in teams : TeamMember(t.id, t.owner_id, "owner") \in team_members
    /\ \A m \in team_members : TeamVisible(m.team_id)
    /\ \A s \in Slots :
         req[s].kind = "createTeam" /\ req[s].args # <<>>
         => IF req[s].pc = "done" /\ req[s].status = 201
            THEN TeamVisible(req[s].args[1].id) /\ MembersVisible(req[s].args[1].id)
            ELSE ~TeamVisible(req[s].args[1].id) /\ ~MembersVisible(req[s].args[1].id)

TeamCreationAtomicWitness ==
    \E s, x \in Slots :
        /\ req[s].kind = "createTeam" /\ req[s].status = 201
        /\ req[x].kind = "createTeam" /\ req[x].failedAt \in {"insertMember", "commit", "crash"}
        /\ req[x].args[1].name # req[s].args[1].name

\* C16: a team becomes visible only at the commit of a CreateTeam request
\* whose caller was stored as admin or task_manager when the request read
\* the row, with the caller as owner_id and as owner-role member; a request
\* of a caller stored with any other type is answered 403 and creates
\* nothing, and one of a caller stored as admin or task_manager goes on to
\* the store, whatever user_type the presented access token claims.
TeamCreatorsOnly ==
    [][/\ \A t \in teams' \ teams :
            \E s \in Slots :
                /\ req[s].kind = "createTeam" /\ req[s].pc = "commit"
                /\ req'[s].pc = "done" /\ req'[s].status = 201
                /\ req[s].user[1].user_type \in {"admin", "task_manager"}
                /\ t.id = req[s].args[1].id /\ t.owner_id = Caller(req[s])
                /\ TeamMember(t.id, Caller(req[s]), "owner") \in team_members'
       /\ \A s \in Slots :
            (/\ started' = started + 1 /\ FreeSlot(s) /\ req'[s].kind = "createTeam"
             /\ req'[s].claims # <<>>)
            => IF users[Caller(req'[s])].user_type \notin {"admin", "task_manager"}
               THEN req'[s].pc = "done" /\ req'[s].status = 403
                    /\ teams' = teams /\ team_members' = team_members
               ELSE Len(req'[s].args[1].name) \in 1..100 => req'[s].pc = "begin"]_vars

TeamCreatorsOnlyWitness ==
    \E s \in Slots :
        /\ req[s].kind = "createTeam" /\ req[s].pc = "done" /\ req[s].status = 201
        /\ req[s].claims[1].user_type = "employee"
        /\ \E t \in teams : /\ t.id = req[s].args[1].id /\ t.owner_id = Caller(req[s])
                            /\ IsOwnerOrAdmin(t.id, t.owner_id)

\* ------------------------------------------------- team members management
\* ON CONFLICT (team_id, user_id) DO UPDATE SET role = EXCLUDED.role
\* variant: a plain INSERT without ON CONFLICT and without the primary key
InsertAgain(ms, teamID, userID, role) == ms \cup {TeamMember(teamID, userID, role)}

Upsert(ms, teamID, userID, role) ==
    {m \in ms : ~(m.team_id = teamID /\ m.user_id = userID)} \cup {TeamMember(teamID, userID, role)}

\* DELETE FROM team_members WHERE team_id = $1 AND user_id = $2
Delete(ms, teamID, userID) == {m \in ms : ~(m.team_id = teamID /\ m.user_id = userID)}

\* a team id no row carries, and a team_id parameter uuid.Parse rejects
NoTeam == 0

NotATeamID == -1

isValidTeamRole(r) == r \in {"owner", "admin", "member"}

\* POST /teams/{team_id}/members up to the handler's IsOwnerOrAdmin
HandleAddMember(s, header, teamIdStr, userIdStr, role) ==
    /\ Accept(s)
    /\ LET r0 == [NoRequest EXCEPT !.kind = "addMember", !.at = now, !.header = header,
                     !.args = <<[team_id |-> teamIdStr, user_id |-> userIdStr, role |-> role]>>]
           auth == RequireAuth(header, now)
           r1 == [r0 EXCEPT !.claims = auth.claims] IN
       req' = [req EXCEPT ![s] =
                 IF auth.status # 0 THEN Fail(r0, auth.status, "guard")
                 ELSE IF teamIdStr = NotATeamID THEN Fail(r1, 400, "team_id")
                 ELSE IF userIdStr = NotAUUID THEN Fail(r1, 400, "body")
                 ELSE IF ~isValidTeamRole(role) THEN Fail(r1, 400, "role")
                 ELSE IF GetUserByID(userIdStr) = <<>> THEN Fail(r1, 404, "getUser")
                 ELSE IF ~IsOwnerOrAdmin(teamIdStr, Caller(r1))
                 THEN Fail([r1 EXCEPT !.user = GetUserByID(userIdStr)], 403, "role")
                 ELSE [r1 EXCEPT !.pc = "recheck", !.user = GetUserByID(userIdStr)]]
    /\ UNCHANGED <<now, ticks, users, ledger, delivered, rotated, loggedOut, loggedOutAll, lookup,
                   config, teams, team_members, tasks, validated>>

\* PGTeamStore.AddMember: the inviter's role is read once more
AddMemberCheck(s) ==
    /\ req[s].kind = "addMember" /\ req[s].pc = "recheck"
    /\ req' = [req EXCEPT ![s] =
                 IF ~IsOwnerOrAdmin(@.args[1].team_id, Caller(@))
                 THEN Fail(@, 500, "addMember")
                 ELSE [@ EXCEPT !.pc = "upsert"]]
    /\ UNCHANGED <<now, ticks, started, users, ledger, delivered, rotated, loggedOut, loggedOutAll,
                   lookup, config, teams, team_members, tasks, validated>>

\* PGTeamStore.AddMember: the upsert, and the response
AddMember(s) ==
    /\ req[s].kind = "addMember" /\ req[s].pc = "upsert"
    /\ LET a == req[s].args[1] IN
       team_members' = Upsert(team_members, a.team_id, req[s].user[1].id, a.role)
    /\ req' = [req EXCEPT ![s] = Respond(@, 200)]
    /\ UNCHANGED <<now, ticks, started, users, ledger, delivered, rotated, loggedOut, loggedOutAll,
                   lookup, config, teams, tasks, validated>>

\* DELETE /teams/{team_id}/members/{user_id} up to the call of the store
RemoveMember(s, header, teamIdStr, userIdStr) ==
    /\ Accept(s)
    /\ LET r0 == [NoRequest EXCEPT !.kind = "removeMember", !.at = now, !.header = header,
                     !.args = <<[team_id |-> teamIdStr, user_id |-> userIdStr]>>]
           auth == RequireAuth(header, now)
           r1 == [r0 EXCEPT !.claims = auth.claims] IN
       req' = [req EXCEPT ![s] =
                 IF auth.status # 0 THEN Fail(r0, auth.status, "guard")
                 ELSE IF teamIdStr = NotATeamID THEN Fail(r1, 400, "team_id")
                 ELSE IF ~IsOwnerOrAdmin(teamIdStr, Caller(r1)) THEN Fail(r1, 403, "role")
                 ELSE IF userIdStr = NotAUUID THEN Fail(r1, 400, "user_id")
                 ELSE [r1 EXCEPT !.pc = "delete"]]
    /\ UNCHANGED <<now, ticks, users, ledger, delivered, rotated, loggedOut, loggedOutAll, lookup,
                   config, teams, team_members, tasks, validated>>

\* variant: a removal that finds no row is answered 200 as well
RemoveMemberQuietly(s) ==
    /\ req[s].kind = "removeMember" /\ req[s].pc = "delete"
    /\ LET a == req[s].args[1] IN
       team_members' = Delete(team_members, a.team_id, a.user_id)
    /\ req' = [req EXCEPT ![s] = Respond(@, 200)]
    /\ UNCHANGED <<now, ticks, started, users, ledger, delivered, rotated, loggedOut, loggedOutAll,
                   lookup, config, teams, tasks, validated>>

\* PGTeamStore.RemoveMemberFromTeam and the response
RemoveMemberFromTeam(s) ==
    /\ req[s].kind = "removeMember" /\ req[s].pc = "delete"
    /\ LET a == req[s].args[1] IN
       IF IsMember(a.team_id, a.user_id)
       THEN /\ team_members' = Delete(team_members, a.team_id, a.user_id)
            /\ req' = [req EXCEPT ![s] = Respond(@, 200)]
       ELSE /\ UNCHANGED team_members
            /\ req' = [req EXCEPT ![s] = Fail(@, 404, "delete")]
    /\ UNCHANGED <<now, ticks, started, users, ledger, delivered, rotated, loggedOut, loggedOutAll,
                   lookup, config, teams, tasks, validated>>

TeamIdStrs == {t.id : t \in teams} \cup {NoTeam, NotATeamID}

MembersNext ==
    \/ \E u \in UserIDs : IssueAccessToken(u)
    \/ \E s \in Slots, header \in AccessHeaders : CreateTeam(s, header, "Alpha")
    \/ \E s \in Slots : BeginTx(s, TRUE)
    \/ \E s \in Slots : InsertTeam(s, TRUE)
    \/ \E s \in Slots : InsertMember(s, TRUE)
    \/ \E s \in Slots : Commit(s, TRUE)
    \/ \E s \in Slots, header \in AccessHeaders, teamIdStr \in TeamIdStrs,
          userIdStr \in AllUserIDs \cup {NotAUUID}, role \in {"admin", "member", "boss"} :
            HandleAddMember(s, header, teamIdStr, userIdStr, role)
    \/ \E s \in Slots : AddMemberCheck(s)
    \/ \E s \in Slots : AddMember(s)
    \/ \E s \in Slots, header \in AccessHeaders, teamIdStr \in TeamIdStrs,
          userIdStr \in AllUserIDs \cup {NotAUUID} : RemoveMember(s, header, teamIdStr, userIdStr)
    \/ \E s \in Slots : RemoveMemberFromTeam(s)

MembersSpec == Init /\ [][MembersNext]_vars

\* the membership rows change only in the commit of a team creation, which
\* adds the owner row, and in the upsert or the delete of a request that
\* passed the owner-or-admin check, and then only the row the request names
MembershipChangesGuarded ==
    team_members' # team_members
    => \E s \in Slots :
         \/ /\ req[s].kind = "createTeam" /\ req[s].pc = "commit"
            /\ team_members' = team_members
                                 \cup {TeamMember(req[s].args[1].id, Caller(req[s]), "owner")}
         \/ /\ req[s].kind = "addMember" /\ req[s].pc = "upsert"
            /\ \A m \in (team_members' \ team_members) \cup (team_members \ team_members') :
                 m.team_id = req[s].args[1].team_id /\ m.user_id = req[s].args[1].user_id
         \/ /\ req[s].kind = "removeMember" /\ req[s].pc = "delete"
            /\ \A m \in (team_members' \ team_members) \cup (team_members \ team_members') :
                 m.team_id = req[s].args[1].team_id /\ m.user_id = req[s].args[1].user_id

\* a well-formed add or remove request of an authenticated caller who is
\* not owner or admin of the team is answered 403, and one of a caller who
\* is goes on to the store
NonManagersForbidden ==
    \A s \in Slots :
        (/\ started' = started + 1 /\ FreeSlot(s)
         /\ req'[s].kind \in {"addMember", "removeMember"}
         /\ req'[s].claims # <<>>
         /\ req'[s].args[1].team_id # NotATeamID /\ req'[s].args[1].user_id # NotAUUID
         /\ req'[s].kind = "addMember" => isValidTeamRole(req'[s].args[1].role))
        => IF ~IsOwnerOrAdmin(req'[s].args[1].team_id, Caller(req'[s]))
           THEN req'[s].pc = "done" /\ req'[s].status = 403 /\ team_members' = team_members
           ELSE req'[s].pc # "done" \/ req'[s].status = 404

\* C17: membership rows other than the owner row of a team creation are
\* added, changed or removed only by requests of a caller who held role
\* owner or admin in the team when the request checked it; every other
\* authenticated caller is answered 403 and the membership is unchanged.
MembershipByOwnerOrAdmin == [][MembershipChangesGuarded /\ NonManagersForbidden]_vars

\* ==================================================================== tasks
\* ------------------------------------------------------------ task store
TaskStatuses == {"open", "in_progress", "done", "canceled"}

EightHours == 28800

Task(id, teamID, title, reporterID, assigneeID, dueAt, status) ==
    [id |-> id, team_id |-> teamID, title |-> title, reporter_id |-> reporterID,
     assignee_id |-> assigneeID, due_at |-> dueAt, status |-> status,
     reminder_sent_at |-> NULL, description |-> <<>>]

GetTaskByID(id) ==
    IF \E t \in tasks : t.id = id THEN <<CHOOSE t \in tasks : t.id = id>> ELSE <<>>

\* UPDATE tasks SET ... WHERE id = $1, as a change of the one matching row
UpdateTask(ts, id, f, value) == {IF t.id = id THEN [t EXCEPT ![f] = value] ELSE t : t \in ts}

\* a patch leaves out a field or carries one value for it
TaskUpdate(title, description, dueAt) ==
    [title |-> title, description |-> description, due_at |-> dueAt]

validateTaskUpdate(upd, t) ==
    IF upd.title # <<>> /\ TrimSpace(upd.title[1]) = "" THEN "invalid input"
    ELSE IF upd.title # <<>> /\ Len(TrimSpace(upd.title[1])) > 500 THEN "invalid input"
    ELSE IF upd.due_at # <<>> /\ upd.due_at[1] < t + EightHours THEN "invalid input"
    ELSE ""

\* a task id no row carries, and an id parameter uuid.Parse rejects
NoTask == 0

NotATaskID == -1

isValidStatus(status) == status \in {"open", "in_progress", "done", "canceled"}

\* ------------------------------------------------------------ handlers
\* PATCH /tasks/{id}/assign up to the call of taskStore.Assign; the three
\* reads (the task, the caller's membership, the assignee's) are one step
AssignTask(s, header, taskIdStr, assigneeIdStr) ==
    /\ Accept(s)
    /\ LET r0 == [NoRequest EXCEPT !.kind = "assign", !.at = now, !.header = header,
                     !.args = <<[task_id |-> taskIdStr, assignee_id |-> assigneeIdStr]>>]
           auth == RequireAuth(header, now)
           r1 == [r0 EXCEPT !.claims = auth.claims]
           task == GetTaskByID(taskIdStr)
           r2 == [r1 EXCEPT !.stored = task] IN
       req' = [req EXCEPT ![s] =
                 IF auth.status # 0 THEN Fail(r0, auth.status, "guard")
                 ELSE IF taskIdStr = NotATaskID THEN Fail(r1, 400, "id")
                 ELSE IF task = <<>> THEN Fail(r1, 404, "getTask")
                 ELSE IF ~IsMember(task[1].team_id, Caller(r1)) THEN Fail(r2, 403, "member")
                 ELSE IF Caller(r1) # task[1].reporter_id THEN Fail(r2, 403, "reporter")
                 ELSE IF assigneeIdStr = NotAUUID THEN Fail(r2, 400, "body")
                 ELSE IF ~IsMember(task[1].team_id, assigneeIdStr) THEN Fail(r2, 400, "assignee")
                 ELSE [r2 EXCEPT !.pc = "write"]]
    /\ UNCHANGED <<now, ticks, users, ledger, delivered, rotated, loggedOut, loggedOutAll, lookup,
                   config, teams, team_members, tasks, validated>>

\* variant: the new assignee takes the task over
AssignAndTakeOver(s) ==
    /\ req[s].kind = "assign" /\ req[s].pc = "write"
    /\ LET a == req[s].args[1] IN
       IF GetTaskByID(a.task_id) = <<>>
       THEN /\ req' = [req EXCEPT ![s] = Fail(@, 500, "assign")]
            /\ UNCHANGED tasks
       ELSE /\ req' = [req EXCEPT ![s] = Respond(@, 200)]
            /\ tasks' = UpdateTask(UpdateTask(tasks, a.task_id, "assignee_id", a.assignee_id),
                                   a.task_id, "reporter_id", a.assignee_id)
    /\ UNCHANGED <<now, ticks, started, users, ledger, delivered, rotated, loggedOut, loggedOutAll,
                   lookup, config, teams, team_members, validated>>

\* PGTaskStore.Assign and the response
Assign(s) ==
    /\ req[s].kind = "assign" /\ req[s].pc = "write"
    /\ LET a == req[s].args[1] IN
       IF GetTaskByID(a.task_id) = <<>>
       THEN /\ req' = [req EXCEPT ![s] = Fail(@, 500, "assign")]
            /\ UNCHANGED tasks
       ELSE /\ req' = [req EXCEPT ![s] = Respond(@, 200)]
            /\ tasks' = UpdateTask(tasks, a.task_id, "assignee_id", a.assignee_id)
    /\ UNCHANGED <<now, ticks, started, users, ledger, delivered, rotated, loggedOut, loggedOutAll,
                   lookup, config, teams, team_members, validated>>

\* variant: the reporter may set the status as well
UpdateStatusByReporterToo(s, header, taskIdStr, status) ==
    /\ Accept(s)
    /\ LET r0 == [NoRequest EXCEPT !.kind = "updateStatus", !.at = now, !.header = header,
                     !.args = <<[task_id |-> taskIdStr, status |-> status]>>]
           auth == RequireAuth(header, now)
           r1 == [r0 EXCEPT !.claims = auth.claims]
           task == GetTaskByID(taskIdStr)
           r2 == [r1 EXCEPT !.stored = task] IN
       req' = [req EXCEPT ![s] =
                 IF auth.status # 0 THEN Fail(r0, auth.status, "guard")
                 ELSE IF taskIdStr = NotATaskID THEN Fail(r1, 400, "id")
                 ELSE IF ~isValidStatus(status) THEN Fail(r1, 400, "status")
                 ELSE IF task = <<>> THEN Fail(r1, 404, "getTask")
                 ELSE IF Caller(r1) # task[1].assignee_id /\ Caller(r1) # task[1].reporter_id
                 THEN Fail(r2, 403, "assignee")
                 ELSE [r2 EXCEPT !.pc = "write"]]
    /\ UNCHANGED <<now, ticks, users, ledger, delivered, rotated, loggedOut, loggedOutAll, lookup,
                   config, teams, team_members, tasks, validated>>

\* PATCH /tasks/{id}/status up to the call of taskStore.UpdateStatus
UpdateStatus(s, header, taskIdStr, status) ==
    /\ Accept(s)
    /\ LET r0 == [NoRequest EXCEPT !.kind = "updateStatus", !.at = now, !.header = header,
                     !.args = <<[task_id |-> taskIdStr, status |-> status]>>]
           auth == RequireAuth(header, now)
           r1 == [r0 EXCEPT !.claims = auth.claims]
           task == GetTaskByID(taskIdStr)
           r2 == [r1 EXCEPT !.stored = task] IN
       req' = [req EXCEPT ![s] =
                 IF auth.status # 0 THEN Fail(r0, auth.status, "guard")
                 ELSE IF taskIdStr = NotATaskID THEN Fail(r1, 400, "id")
                 ELSE IF ~isValidStatus(status) THEN Fail(r1, 400, "status")
                 ELSE IF task = <<>> THEN Fail(r1, 404, "getTask")
                 ELSE IF Caller(r1) # task[1].assignee_id THEN Fail(r2, 403, "assignee")
                 ELSE [r2 EXCEPT !.pc = "write"]]
    /\ UNCHANGED <<now, ticks, users, ledger, delivered, rotated, loggedOut, loggedOutAll, lookup,
                   config, teams, team_members, tasks, validated>>

\* PGTaskStore.UpdateStatus and the response
StoreUpdateStatus(s) ==
    /\ req[s].kind = "updateStatus" /\ req[s].pc = "write"
    /\ LET a == req[s].args[1] IN
       IF GetTaskByID(a.task_id) = <<>>
       THEN /\ req' = [req EXCEPT ![s] = Fail(@, 500, "updateStatus")]
            /\ UNCHANGED tasks
       ELSE /\ req' = [req EXCEPT ![s] = Respond(@, 200)]
            /\ tasks' = UpdateTask(tasks, a.task_id, "status", a.status)
    /\ UNCHANGED <<now, ticks, started, users, ledger, delivered, rotated, loggedOut, loggedOutAll,
                   lookup, config, teams, team_members, validated>>

\* variant: the caller is not compared with the reporter
DeleteTaskWithoutReporterCheck(s, header, taskIdStr) ==
    /\ Accept(s)
    /\ LET r0 == [NoRequest EXCEPT !.kind = "delete", !.at = now, !.header = header,
                     !.args = <<[task_id |-> taskIdStr]>>]
           auth == RequireAuth(header, now)
           r1 == [r0 EXCEPT !.claims = auth.claims]
           task == GetTaskByID(taskIdStr)
           r2 == [r1 EXCEPT !.stored = task] IN
       req' = [req EXCEPT ![s] =
                 IF auth.status # 0 THEN Fail(r0, auth.status, "guard")
                 ELSE IF taskIdStr = NotATaskID THEN Fail(r1, 400, "id")
                 ELSE IF task = <<>> THEN Fail(r1, 404, "getTask")
                 ELSE [r2 EXCEPT !.pc = "write"]]
    /\ UNCHANGED <<now, ticks, users, ledger, delivered, rotated, loggedOut, loggedOutAll, lookup,
                   config, teams, team_members, tasks, validated>>

\* DELETE /tasks/{id}/ up to the call of taskStore.DeleteTask
DeleteTask(s, header, taskIdStr) ==
    /\ Accept(s)
    /\ LET r0 == [NoRequest EXCEPT !.kind = "delete", !.at = now, !.header = header,
                     !.args = <<[task_id |-> taskIdStr]>>]
           auth == RequireAuth(header, now)
           r1 == [r0 EXCEPT !.claims = auth.claims]
           task == GetTaskByID(taskIdStr)
           r2 == [r1 EXCEPT !.stored = task] IN
       req' = [req EXCEPT ![s] =
                 IF auth.status # 0 THEN Fail(r0, auth.status, "guard")
                 ELSE IF taskIdStr = NotATaskID THEN Fail(r1, 400, "id")
                 ELSE IF task = <<>> THEN Fail(r1, 404, "getTask")
                 ELSE IF Caller(r1) # task[1].reporter_id THEN Fail(r2, 403, "reporter")
                 ELSE [r2 EXCEPT !.pc = "write"]]
    /\ UNCHANGED <<now, ticks, users, ledger, delivered, rotated, loggedOut, loggedOutAll, lookup,
                   config, teams, team_members, tasks, validated>>

\* PGTaskStore.DeleteTask and the response
StoreDeleteTask(s) ==
    /\ req[s].kind = "delete" /\ req[s].pc = "write"
    /\ LET a == req[s].args[1] IN
       IF GetTaskByID(a.task_id) = <<>>
       THEN /\ req' = [req EXCEPT ![s] = Fail(@, 404, "delete")]
            /\ UNCHANGED tasks
       ELSE /\ req' = [req EXCEPT ![s] = Respond(@, 204)]
            /\ tasks' = {t \in tasks : t.id # a.task_id}
    /\ UNCHANGED <<now, ticks, started, users, ledger, delivered, rotated, loggedOut, loggedOutAll,
                   lookup, config, teams, team_members, validated>>

\* PATCH /tasks/{id}/update-details up to the call of taskStore.UpdateDetails
HandlePatchTask(s, header, taskIdStr, patch) ==
    /\ Accept(s)
    /\ LET r0 == [NoRequest EXCEPT !.kind = "patch", !.at = now, !.header = header,
                     !.args = <<[task_id |-> taskIdStr, patch |-> patch]>>]
           auth == RequireAuth(header, now)
           r1 == [r0 EXCEPT !.claims = auth.claims]
           task == GetTaskByID(taskIdStr)
           r2 == [r1 EXCEPT !.stored = task] IN
       req' = [req EXCEPT ![s] =
                 IF auth.status # 0 THEN Fail(r0, auth.status, "guard")
                 ELSE IF taskIdStr = NotATaskID THEN Fail(r1, 400, "id")
                 ELSE IF task = <<>> THEN Fail(r1, 404, "getTask")
                 ELSE IF task[1].reporter_id # Caller(r1) THEN Fail(r2, 403, "reporter")
                 ELSE IF patch.title = <<>> /\ patch.description = <<>> /\ patch.due_at = <<>>
                      THEN Fail(r2, 400, "body")
                 ELSE [r2 EXCEPT !.pc = "read"]]
    /\ UNCHANGED <<now, ticks, users, ledger, delivered, rotated, loggedOut, loggedOutAll, lookup,
                   config, teams, team_members, tasks, validated>>

\* PGTaskStore.UpdateDetails: validateTaskUpdate and GetTaskByID
UpdateDetailsRead(s) ==
    /\ req[s].kind = "patch" /\ req[s].pc = "read"
    /\ LET a == req[s].args[1]
           existing == GetTaskByID(a.task_id) IN
       req' = [req EXCEPT ![s] =
                 IF validateTaskUpdate(a.patch, now) # "" THEN Fail(@, 400, "validate")
                 ELSE IF existing = <<>> THEN Fail(@, 404, "getTask")
                 ELSE [@ EXCEPT !.pc = "write", !.stored = existing]]
    /\ UNCHANGED <<now, ticks, started, users, ledger, delivered, rotated, loggedOut, loggedOutAll,
                   lookup, config, teams, team_members, tasks, validated>>

\* PGTaskStore.UpdateDetails: the UPDATE, written from the row read before
UpdateDetails(s) ==
    /\ req[s].kind = "patch" /\ req[s].pc = "write"
    /\ LET a == req[s].args[1]
           existing == req[s].stored[1]
           title == IF a.patch.title # <<>> THEN TrimSpace(a.patch.title[1]) ELSE existing.title
           description == IF a.patch.description # <<>> THEN a.patch.description
                          ELSE existing.description
           dueAt == IF a.patch.due_at # <<>> THEN a.patch.due_at[1] ELSE existing.due_at IN
       IF GetTaskByID(a.task_id) = <<>>
       THEN /\ req' = [req EXCEPT ![s] = Fail(@, 404, "update")]
            /\ UNCHANGED tasks
       ELSE /\ req' = [req EXCEPT ![s] = Respond(@, 200)]
            /\ tasks' = UpdateTask(UpdateTask(UpdateTask(tasks, a.task_id, "title", title),
                                              a.task_id, "description", description),
                                   a.task_id, "due_at", dueAt)
    /\ UNCHANGED <<now, ticks, started, users, ledger, delivered, rotated, loggedOut, loggedOutAll,
                   lookup, config, teams, team_members, validated>>

\* ------------------------------------------------------------ a workspace
\* u3 has registered, u2 has created team Alpha and made u1 an admin of it,
\* u2 has reported a task of the team and assigned it to u1, and each of
\* the three holds an access token of a login
SeedTeam == 9

SeedTask == 9

TasksInit ==
    /\ config = NewApplication("access-secret", "refresh-secret")
    /\ now = 0
    /\ ticks = 0
    /\ started = 0
    /\ users = [u \in AllUserIDs |->
                  [email |-> IF u = "u1" THEN "u1@example.com"
                             ELSE IF u = "u2" THEN "u2@example.com" ELSE "u3@example.com",
                   password_hash |-> HashPassword("correct horse"),
                   user_type |-> IF u = "u2" THEN "admin" ELSE "employee"]]
    /\ ledger = {}
    /\ req = [s \in Slots |-> NoRequest]
    /\ delivered = {MintAccessToken(u, users[u].email, users[u].user_type, 0) : u \in AllUserIDs}
    /\ rotated = {}
    /\ loggedOut = {}
    /\ loggedOutAll = {}
    /\ lookup = NoLookup
    /\ teams = {Team(SeedTeam, "Alpha", "u2")}
    /\ team_members = {TeamMember(SeedTeam, "u2", "owner"), TeamMember(SeedTeam, "u1", "admin")}
    /\ tasks = {Task(SeedTask, SeedTeam, "Write report", "u2", "u1", 2 * EightHours, "open")}
    /\ validated = NoValidation

\* the requests of the three users: each sends the token it holds
Bearers == {Str(BearerPrefix, <<t>>) : t \in delivered}

TaskIdStrs == {SeedTask, NoTask}

Patches ==
    {TaskUpdate(<<>>, <<>>, <<>>), TaskUpdate(<<"Renamed">>, <<>>, <<>>),
     TaskUpdate(<<>>, <<>>, <<EightHours - 1>>)}

TasksNext ==
    \/ \E s \in Slots, header \in Bearers, taskIdStr \in TaskIdStrs, assigneeIdStr \in {"u2", "u3"} :
            AssignTask(s, header, taskIdStr, assigneeIdStr)
    \/ \E s \in Slots : Assign(s)
    \/ \E s \in Slots, header \in Bearers, taskIdStr \in TaskIdStrs, status \in {"done", "bogus"} :
            UpdateStatus(s, header, taskIdStr, status)
    \/ \E s \in Slots : StoreUpdateStatus(s)
    \/ \E s \in Slots, header \in Bearers, taskIdStr \in TaskIdStrs : DeleteTask(s, header, taskIdStr)
    \/ \E s \in Slots : StoreDeleteTask(s)
    \/ \E s \in Slots, header \in Bearers, taskIdStr \in TaskIdStrs, patch \in Patches :
            HandlePatchTask(s, header, taskIdStr, patch)
    \/ \E s \in Slots : UpdateDetailsRead(s)
    \/ \E s \in Slots : UpdateDetails(s)
    \/ \E s \in Slots, header \in Bearers, userIdStr \in UserIDs :
            RemoveMember(s, header, SeedTeam, userIdStr)
    \/ \E s \in Slots : RemoveMemberFromTeam(s)

TasksSpec == TasksInit /\ [][TasksNext]_vars

\* the request in slot s takes this step
Steps(s) == req'[s] # req[s]

\* a request accepted in this step on a task that exists
NewOnTask(s, kinds) ==
    /\ started' = started + 1 /\ FreeSlot(s)
    /\ req'[s].kind \in kinds
    /\ req'[s].claims # <<>>
    /\ GetTaskByID(req'[s].args[1].task_id) # <<>>

\* C18: a step of an assign, delete or update-details request changes the
\* tasks only if the caller is the reporter of the task it names, and then
\* only that task; no step changes a reporter_id; a request of any other
\* authenticated caller on an existing task is answered 403 and leaves the
\* tasks as they are.
TaskChangesByReporter ==
    [][/\ \A s \in Slots :
            (Steps(s) /\ req[s].kind \in {"assign", "delete", "patch"} /\ tasks' # tasks)
            => /\ GetTaskByID(req[s].args[1].task_id) # <<>>
               /\ Caller(req[s]) = GetTaskByID(req[s].args[1].task_id)[1].reporter_id
               /\ \A t \in tasks : t.id # req[s].args[1].task_id => t \in tasks'
       /\ \A t \in tasks, x \in tasks' : t.id = x.id => t.reporter_id = x.reporter_id
       /\ \A s \in Slots :
            (/\ NewOnTask(s, {"assign", "delete", "patch"})
             /\ Caller(req'[s]) # GetTaskByID(req'[s].args[1].task_id)[1].reporter_id)
            => req'[s].pc = "done" /\ req'[s].status = 403 /\ tasks' = tasks]_vars

TaskChangesByReporterWitness ==
    \E s, x \in Slots :
        /\ req[s].kind = "patch" /\ req[s].status = 200
        /\ \E t \in tasks : t.id = req[s].args[1].task_id /\ t.title = "Renamed"
        /\ req[x].kind \in {"assign", "delete"} /\ req[x].status = 403
        /\ req[x].stored # <<>> /\ Caller(req[x]) # req[x].stored[1].reporter_id

\* C19: a task's status changes only in the write of an update-status
\* request whose caller was the assignee of the task when the request read
\* it; a well-formed request of any other authenticated caller on an
\* existing task (the reporter, a former assignee, an outsider) is answered
\* 403 and leaves the tasks as they are.
StatusChangesByAssignee ==
    [][/\ \A t \in tasks, x \in tasks' :
            (t.id = x.id /\ t.status # x.status)
            => \E s \in Slots :
                 /\ Steps(s) /\ req[s].kind = "updateStatus" /\ req[s].pc = "write"
                 /\ req[s].args[1].task_id = t.id /\ x.status = req[s].args[1].status
                 /\ Caller(req[s]) = req[s].stored[1].assignee_id
                 /\ tasks' = UpdateTask(tasks, t.id, "status", x.status)
       /\ \A s \in Slots :
            (Steps(s) /\ req[s].kind = "updateStatus" /\ tasks' # tasks)
            => Caller(req[s]) = req[s].stored[1].assignee_id
       /\ \A s \in Slots :
            (/\ NewOnTask(s, {"updateStatus"})
             /\ isValidStatus(req'[s].args[1].status)
             /\ Caller(req'[s]) # GetTaskByID(req'[s].args[1].task_id)[1].assignee_id)
            => req'[s].pc = "done" /\ req'[s].status = 403 /\ tasks' = tasks]_vars

StatusChangesByAssigneeWitness ==
    \E s, x \in Slots :
        /\ req[s].kind = "updateStatus" /\ req[s].status = 403
        /\ Caller(req[s]) = "u1" /\ req[s].stored[1].assignee_id = "u2"
        /\ req[x].kind = "updateStatus" /\ req[x].status = 200 /\ Caller(req[x]) = "u2"
        /\ \E t \in tasks : t.id = SeedTask /\ t.status = "done" /\ t.assignee_id = "u2"

\* C20: an assign, delete, update-details or update-status request of a
\* caller who is not a member of the team of the task it names is refused:
\* it does not go on to the store and leaves the tasks as they are.
TaskChangesByMembers ==
    [][\A s \in Slots :
          (/\ NewOnTask(s, {"assign", "delete", "patch", "updateStatus"})
           /\ ~IsMember(GetTaskByID(req'[s].args[1].task_id)[1].team_id, Caller(req'[s])))
          => req'[s].pc = "done" /\ req'[s].status \in {400, 403} /\ tasks' = tasks]_vars

\* ============================================================ task creation
\* taskInputValidation; the team id is a parsed uuid and never uuid.Nil
taskInputValidation(title, dueAt, t) ==
    IF Len(TrimSpace(title)) < 1 \/ Len(TrimSpace(title)) > 100
    THEN "title length must be between 1 and 100"
    ELSE IF dueAt < t + EightHours THEN "due_at must be at least 8 hours from now"
    ELSE ""

\* validateTask of the store
validateTask(title, dueAt, t) ==
    IF TrimSpace(title) = "" \/ Len(title) > 500 \/ dueAt < t THEN "invalid input" ELSE ""

\* variant: the assignee's membership is not looked up
CreateTaskAnyAssignee(s, header, teamIdStr, title, assignee, dueAt) ==
    /\ Accept(s)
    /\ LET reporterID == GetUserIDFromContext(RequireAuth(header, now).claims)
           auth == RequireAuth(header, now)
           \* Default assignee to reporter if not provided
           assigneeID == IF assignee = <<>> /\ reporterID # <<>> THEN reporterID ELSE assignee
           r0 == [NoRequest EXCEPT !.kind = "createTask", !.at = now, !.header = header,
                     !.args = <<[id |-> started + 1, team_id |-> teamIdStr, title |-> title,
                                 assignee_id |-> assigneeID, due_at |-> dueAt]>>]
           r1 == [r0 EXCEPT !.claims = auth.claims] IN
       req' = [req EXCEPT ![s] =
                 IF auth.status # 0 THEN Fail(r0, auth.status, "guard")
                 ELSE IF teamIdStr = NotATeamID \/ assigneeID = <<NotAUUID>> THEN Fail(r1, 400, "body")
                 ELSE IF taskInputValidation(title, dueAt, now) # "" THEN Fail(r1, 400, "validate")
                 ELSE IF ~IsMember(teamIdStr, reporterID[1]) THEN Fail(r1, 403, "member")
                 ELSE [r1 EXCEPT !.pc = "write"]]
    /\ UNCHANGED <<now, ticks, users, ledger, delivered, rotated, loggedOut, loggedOutAll, lookup,
                   config, teams, team_members, tasks, validated>>

\* POST /tasks/ up to the call of taskStore.Create
CreateTask(s, header, teamIdStr, title, assignee, dueAt) ==
    /\ Accept(s)
    /\ LET reporterID == GetUserIDFromContext(RequireAuth(header, now).claims)
           auth == RequireAuth(header, now)
           \* Default assignee to reporter if not provided
           assigneeID == IF assignee = <<>> /\ reporterID # <<>> THEN reporterID ELSE assignee
           r0 == [NoRequest EXCEPT !.kind = "createTask", !.at = now, !.header = header,
                     !.args = <<[id |-> started + 1, team_id |-> teamIdStr, title |-> title,
                                 assignee_id |-> assigneeID, due_at |-> dueAt]>>]
           r1 == [r0 EXCEPT !.claims = auth.claims] IN
       req' = [req EXCEPT ![s] =
                 IF auth.status # 0 THEN Fail(r0, auth.status, "guard")
                 ELSE IF teamIdStr = NotATeamID \/ assigneeID = <<NotAUUID>> THEN Fail(r1, 400, "body")
                 ELSE IF taskInputValidation(title, dueAt, now) # "" THEN Fail(r1, 400, "validate")
                 ELSE IF ~IsMember(teamIdStr, reporterID[1]) THEN Fail(r1, 403, "member")
                 ELSE IF assigneeID # reporterID /\ ~IsMember(teamIdStr, assigneeID[1])
                 THEN Fail(r1, 400, "assignee")
                 ELSE [r1 EXCEPT !.pc = "write"]]
    /\ UNCHANGED <<now, ticks, users, ledger, delivered, rotated, loggedOut, loggedOutAll, lookup,
                   config, teams, team_members, tasks, validated>>

\* PGTaskStore.Create and the response; the row gets status open by default
TaskStoreCreate(s) ==
    /\ req[s].kind = "createTask" /\ req[s].pc = "write"
    /\ LET a == req[s].args[1] IN
       IF validateTask(a.title, a.due_at, req[s].at) # ""
       THEN /\ req' = [req EXCEPT ![s] = Fail(@, 500, "create")]
            /\ UNCHANGED tasks
       ELSE /\ req' = [req EXCEPT ![s] = Respond(@, 201)]
            /\ tasks' = tasks \cup {Task(a.id, a.team_id, a.title, Caller(req[s]),
                                         a.assignee_id[1], a.due_at, "open")}
    /\ UNCHANGED <<now, ticks, started, users, ledger, delivered, rotated, loggedOut, loggedOutAll,
                   lookup, config, teams, team_members, validated>>

StaffNext ==
    \/ \E s \in Slots, header \in Bearers, teamIdStr \in {SeedTeam, NoTeam},
          assignee \in {<<>>, <<"u1">>, <<"u3">>} :
            CreateTask(s, header, teamIdStr, "Fix bug", assignee, now + EightHours)
    \/ \E s \in Slots : TaskStoreCreate(s)
    \/ \E s \in Slots, header \in Bearers, taskIdStr \in TaskIdStrs, assigneeIdStr \in {"u2", "u3"} :
            AssignTask(s, header, taskIdStr, assigneeIdStr)
    \/ \E s \in Slots : Assign(s)
    \/ \E s \in Slots, header \in Bearers, userIdStr \in UserIDs :
            RemoveMember(s, header, SeedTeam, userIdStr)
    \/ \E s \in Slots : RemoveMemberFromTeam(s)

StaffSpec == TasksInit /\ [][StaffNext]_vars

\* C21: a create request goes on to the store only if its caller and its
\* assignee are members of the team at that moment, and an assign request
\* only if the caller and the new assignee are; a task appears only in the
\* write of such a create request, with the caller as reporter and the
\* named assignee, and an assignee changes only in the write of such an
\* assign request, to the named user; a request naming a non-member
\* assignee is answered 400 and leaves the tasks as they are.
AssigneeIsTeamMember ==
    [][/\ \A s \in Slots :
            (/\ started' = started + 1 /\ FreeSlot(s)
             /\ req'[s].kind \in {"createTask", "assign"})
            => /\ req'[s].pc = "write" /\ req'[s].kind = "createTask"
                  => /\ IsMember(req'[s].args[1].team_id, Caller(req'[s]))
                     /\ IsMember(req'[s].args[1].team_id, req'[s].args[1].assignee_id[1])
               /\ req'[s].pc = "write" /\ req'[s].kind = "assign"
                  => /\ IsMember(req'[s].stored[1].team_id, Caller(req'[s]))
                     /\ IsMember(req'[s].stored[1].team_id, req'[s].args[1].assignee_id)
               /\ tasks' = tasks
               /\ (/\ req'[s].claims # <<>> /\ req'[s].kind = "createTask"
                   /\ req'[s].args[1].team_id # NotATeamID
                   /\ req'[s].args[1].assignee_id # <<NotAUUID>>
                   /\ IsMember(req'[s].args[1].team_id, Caller(req'[s]))
                   /\ ~IsMember(req'[s].args[1].team_id, req'[s].args[1].assignee_id[1]))
                  => req'[s].pc = "done" /\ req'[s].status = 400
               /\ (/\ req'[s].claims # <<>> /\ req'[s].kind = "assign"
                   /\ req'[s].stored # <<>>
                   /\ Caller(req'[s]) = req'[s].stored[1].reporter_id
                   /\ IsMember(req'[s].stored[1].team_id, Caller(req'[s]))
                   /\ ~IsMember(req'[s].stored[1].team_id, req'[s].args[1].assignee_id))
                  => req'[s].pc = "done" /\ req'[s].status = 400
       /\ \A x \in tasks' :
            /\ (~\E t \in tasks : t.id = x.id)
               => \E s \in Slots :
                    /\ Steps(s) /\ req[s].kind = "createTask" /\ req[s].pc = "write"
                    /\ x.id = req[s].args[1].id /\ x.team_id = req[s].args[1].team_id
                    /\ x.reporter_id = Caller(req[s])
                    /\ x.assignee_id = req[s].args[1].assignee_id[1]
            /\ \A t \in tasks : (t.id = x.id /\ t.assignee_id # x.assignee_id)
               => \E s \in Slots :
                    /\ Steps(s) /\ req[s].kind = "assign" /\ req[s].pc = "write"
                    /\ req[s].args[1].task_id = x.id
                    /\ x.assignee_id = req[s].args[1].assignee_id]_vars

AssigneeIsTeamMemberWitness ==
    \E s, x \in Slots :
        /\ req[s].kind = "createTask" /\ req[s].status = 201
        /\ \E t \in tasks : /\ t.id = req[s].args[1].id /\ t.reporter_id = "u2"
                            /\ t.assignee_id = "u1" /\ IsMember(t.team_id, "u1")
        /\ req[x].kind \in {"createTask", "assign"} /\ req[x].status = 400
        /\ req[x].failedAt = "assignee"

\* ============================================================ task reading
\* GET /tasks/{id}/: the task is read, then the caller's membership
GetTask(s, header, taskIdStr) ==
    /\ Accept(s)
    /\ LET r0 == [NoRequest EXCEPT !.kind = "getTask", !.at = now, !.header = header,
                     !.args = <<[task_id |-> taskIdStr]>>]
           auth == RequireAuth(header, now)
           r1 == [r0 EXCEPT !.claims = auth.claims]
           task == GetTaskByID(taskIdStr) IN
       req' = [req EXCEPT ![s] =
                 IF auth.status # 0 THEN Fail(r0, auth.status, "guard")
                 ELSE IF taskIdStr = NotATaskID THEN Fail(r1, 400, "id")
                 ELSE IF task = <<>> THEN Fail(r1, 404, "getTask")
                 ELSE IF ~IsMember(task[1].team_id, Caller(r1)) THEN Fail(r1, 403, "member")
                 ELSE Respond([r1 EXCEPT !.shown = {task[1]}], 200)]
    /\ UNCHANGED <<now, ticks, users, ledger, delivered, rotated, loggedOut, loggedOutAll, lookup,
                   config, teams, team_members, tasks, validated>>

\* the three team-scoped lists up to the query: which is "team", "assignee"
\* or "reporter"
ListInTeam(s, header, teamIdStr, which) ==
    /\ Accept(s)
    /\ LET r0 == [NoRequest EXCEPT !.kind = "listInTeam", !.at = now, !.header = header,
                     !.args = <<[team_id |-> teamIdStr, which |-> which]>>]
           auth == RequireAuth(header, now)
           r1 == [r0 EXCEPT !.claims = auth.claims] IN
       req' = [req EXCEPT ![s] =
                 IF auth.status # 0 THEN Fail(r0, auth.status, "guard")
                 ELSE IF teamIdStr = NotATeamID THEN Fail(r1, 400, "team_id")
                 ELSE IF ~IsMember(teamIdStr, Caller(r1)) THEN Fail(r1, 403, "member")
                 ELSE [r1 EXCEPT !.pc = "list"]]
    /\ UNCHANGED <<now, ticks, users, ledger, delivered, rotated, loggedOut, loggedOutAll, lookup,
                   config, teams, team_members, tasks, validated>>

ListTeamTasks(s, header, teamIdStr) == ListInTeam(s, header, teamIdStr, "team")

ListAssigneeTasksInTeam(s, header, teamIdStr) == ListInTeam(s, header, teamIdStr, "assignee")

ListReporterTasksInTeam(s, header, teamIdStr) == ListInTeam(s, header, teamIdStr, "reporter")

\* the query of the store and the response
TeamTasksQuery(s) ==
    /\ req[s].kind = "listInTeam" /\ req[s].pc = "list"
    /\ LET a == req[s].args[1]
           rows == {t \in tasks :
                      /\ t.team_id = a.team_id
                      /\ a.which = "assignee" => t.assignee_id = Caller(req[s])
                      /\ a.which = "reporter" => t.reporter_id = Caller(req[s])} IN
       req' = [req EXCEPT ![s] = Respond([@ EXCEPT !.shown = rows], 200)]
    /\ UNCHANGED <<now, ticks, started, users, ledger, delivered, rotated, loggedOut, loggedOutAll,
                   lookup, config, teams, team_members, tasks, validated>>

GetTasksByReporterID(reporterID) == {t \in tasks : t.reporter_id = reporterID}

GetTasksByAssigneeID(assigneeID) == {t \in tasks : t.assignee_id = assigneeID}

\* GET /tasks/reporter and GET /tasks/assignee
listTasks(s, header, asReporter) ==
    /\ Accept(s)
    /\ LET r0 == [NoRequest EXCEPT !.kind = "listTasks", !.at = now, !.header = header,
                     !.args = <<[as_reporter |-> asReporter]>>]
           auth == RequireAuth(header, now)
           r1 == [r0 EXCEPT !.claims = auth.claims] IN
       req' = [req EXCEPT ![s] =
                 IF auth.status # 0 THEN Fail(r0, auth.status, "guard")
                 ELSE Respond([r1 EXCEPT !.shown = IF asReporter
                                                    THEN GetTasksByReporterID(Caller(r1))
                                                    ELSE GetTasksByAssigneeID(Caller(r1))], 200)]
    /\ UNCHANGED <<now, ticks, users, ledger, delivered, rotated, loggedOut, loggedOutAll, lookup,
                   config, teams, team_members, tasks, validated>>

ListTasksAsReporter(s, header) == listTasks(s, header, TRUE)

ListTasksAsAssignee(s, header) == listTasks(s, header, FALSE)

ViewNext ==
    \/ \E s \in Slots, header \in Bearers, taskIdStr \in TaskIdStrs : GetTask(s, header, taskIdStr)
    \/ \E s \in Slots, header \in Bearers, teamIdStr \in {SeedTeam, NoTeam} :
            ListTeamTasks(s, header, teamIdStr)
    \/ \E s \in Slots, header \in Bearers : ListAssigneeTasksInTeam(s, header, SeedTeam)
    \/ \E s \in Slots, header \in Bearers : ListReporterTasksInTeam(s, header, SeedTeam)
    \/ \E s \in Slots : TeamTasksQuery(s)
    \/ \E s \in Slots, header \in Bearers : ListTasksAsReporter(s, header)
    \/ \E s \in Slots, header \in Bearers : ListTasksAsAssignee(s, header)
    \/ \E s \in Slots, header \in Bearers, userIdStr \in UserIDs :
            RemoveMember(s, header, SeedTeam, userIdStr)
    \/ \E s \in Slots : RemoveMemberFromTeam(s)

ViewSpec == TasksInit /\ [][ViewNext]_vars

ViewKinds == {"getTask", "listInTeam", "listTasks"}

\* a request that reads tasks is answered, or goes on to its query, only
\* with tasks of teams the caller is a member of at that moment
ShownToMembers(s) ==
    (/\ started' = started + 1 /\ FreeSlot(s)
     /\ req'[s].kind \in ViewKinds /\ req'[s].claims # <<>>)
    => /\ \A t \in req'[s].shown : IsMember(t.team_id, Caller(req'[s]))
       /\ req'[s].pc = "list" => IsMember(req'[s].args[1].team_id, Caller(req'[s]))
       /\ (req'[s].kind = "listInTeam" /\ req'[s].args[1].team_id # NotATeamID
           /\ ~IsMember(req'[s].args[1].team_id, Caller(req'[s])))
          => req'[s].pc = "done" /\ req'[s].status = 403

\* the query of a team-scoped list returns tasks of that team only
QueryWithinTeam(s) ==
    (Steps(s) /\ req[s].kind = "listInTeam" /\ req[s].pc = "list")
    => \A t \in req'[s].shown : t.team_id = req[s].args[1].team_id

\* a member is shown the task it asks for
MemberCanView(s) ==
    (/\ started' = started + 1 /\ FreeSlot(s)
     /\ req'[s].kind = "getTask" /\ req'[s].claims # <<>>
     /\ GetTaskByID(req'[s].args[1].task_id) # <<>>)
    => IF IsMember(GetTaskByID(req'[s].args[1].task_id)[1].team_id, Caller(req'[s]))
       THEN req'[s].status = 200 /\ req'[s].shown = {GetTaskByID(req'[s].args[1].task_id)[1]}
       ELSE req'[s].status = 403 /\ req'[s].shown = {}

\* C22: no task-reading endpoint shows a task of team T to a caller who is
\* not a member of T when the request is made: the caller gets 403 or a
\* result without tasks of T; a member is shown the tasks of T.
TasksShownToMembersOnly ==
    [][\A s \in Slots : ShownToMembers(s) /\ QueryWithinTeam(s) /\ MemberCanView(s)]_vars

\* ================================================================ due dates
\* a second passes between two requests
Wait == (\A s \in Slots : ~InFlight(s)) /\ Elapse(1)

\* the reporter of the seeded task, and a user outside the team
DueCallers == {h \in Bearers : h.tok[1].user_id \in {"u2", "u3"}}

DueNext ==
    \/ \E s \in Slots, header \in DueCallers, title \in {"Fix bug", "  "},
          dueAt \in {now + EightHours, now + EightHours - 1} :
            CreateTask(s, header, SeedTeam, title, <<>>, dueAt)
    \/ \E s \in Slots : TaskStoreCreate(s)
    \/ \E s \in Slots, header \in DueCallers, t \in tasks,
          patch \in {TaskUpdate(<<"Renamed">>, <<>>, <<>>), TaskUpdate(<<>>, <<>>, <<now + EightHours>>),
                     TaskUpdate(<<>>, <<>>, <<now + EightHours - 1>>)} :
            HandlePatchTask(s, header, t.id, patch)
    \/ \E s \in Slots : UpdateDetailsRead(s)
    \/ \E s \in Slots : UpdateDetails(s)
    \/ Wait

DueSpec == TasksInit /\ [][DueNext]_vars

\* a task appears only with a due_at of at least 8 h after its request
CreatedDueLater ==
    \A x \in tasks' :
        (~\E t \in tasks : t.id = x.id)
        => \E s \in Slots : /\ Steps(s) /\ req[s].kind = "createTask"
                            /\ x.id = req[s].args[1].id
                            /\ x.due_at >= req[s].at + EightHours

\* a due_at changes only to a value of at least 8 h after the request
ChangedDueLater ==
    \A t \in tasks, x \in tasks' :
        (t.id = x.id /\ t.due_at # x.due_at)
        => \E s \in Slots : /\ Steps(s) /\ req[s].kind = "patch"
                            /\ x.due_at >= req[s].at + EightHours

\* a create request with an earlier due_at is answered 400, member or not,
\* valid title or not; an update with one is answered 400 by the store
EarlyDueRefused ==
    \A s \in Slots :
        /\ (/\ started' = started + 1 /\ FreeSlot(s)
            /\ req'[s].kind = "createTask" /\ req'[s].claims # <<>>
            /\ req'[s].args[1].due_at < now + EightHours)
           => req'[s].pc = "done" /\ req'[s].status = 400 /\ tasks' = tasks
        /\ (/\ Steps(s) /\ req[s].kind = "patch" /\ req[s].pc = "read"
            /\ req[s].args[1].patch.due_at # <<>>
            /\ req[s].args[1].patch.due_at[1] < now + EightHours)
           => req'[s].pc = "done" /\ req'[s].status = 400 /\ tasks' = tasks

\* C23: a task is created only with due_at >= now + 8 h and update-details
\* changes due_at only to a value >= now + 8 h; a create or update request
\* with an earlier due_at is answered 400 and stores nothing.
DueAtLeastEightHours == [][CreatedDueLater /\ ChangedDueLater /\ EarlyDueRefused]_vars

\* ================================================================ reporter
\* PGTaskStore.MarkReminderSent with when = now; without the row it is
\* ErrTaskNotFound and nothing changes
MarkReminderSent(taskID) ==
    /\ GetTaskByID(taskID) # <<>>
    /\ tasks' = UpdateTask(tasks, taskID, "reminder_sent_at", now)
    /\ UNCHANGED <<now, ticks, started, users, ledger, req, delivered, rotated, loggedOut,
                   loggedOutAll, lookup, config, teams, team_members, validated>>

\* the reporter and the assignee of the seeded task
FrameCallers == {h \in Bearers : h.tok[1].user_id \in {"u1", "u2"}}

FrameNext ==
    \/ \E s \in Slots, header \in FrameCallers, assigneeIdStr \in {"u1", "u2"} :
            AssignTask(s, header, SeedTask, assigneeIdStr)
    \/ \E s \in Slots : Assign(s)
    \/ \E s \in Slots, header \in FrameCallers, status \in {"in_progress", "done"} :
            UpdateStatus(s, header, SeedTask, status)
    \/ \E s \in Slots : StoreUpdateStatus(s)
    \/ \E s \in Slots, header \in FrameCallers,
          patch \in {TaskUpdate(<<"Renamed">>, <<>>, <<>>), TaskUpdate(<<>>, <<>>, <<EightHours>>),
                     TaskUpdate(<<>>, <<"More detail">>, <<>>)} :
            HandlePatchTask(s, header, SeedTask, patch)
    \/ \E s \in Slots : UpdateDetailsRead(s)
    \/ \E s \in Slots : UpdateDetails(s)
    \/ MarkReminderSent(SeedTask)

FrameSpec == TasksInit /\ [][FrameNext]_vars

\* the request in slot s writes the status of task taskID in this step
WritesStatus(s, taskID) ==
    /\ req[s].kind = "updateStatus" /\ req[s].pc = "write"
    /\ req[s].args[1].task_id = taskID
    /\ req'[s].pc = "done" /\ req'[s].status = 200

\* C37: every write of a task's status is made for the user who is the
\* task's assignee at the moment of the write, also when assign and
\* update-status requests on the task interleave.
StatusWrittenForAssignee ==
    [][\A s \in Slots, t \in tasks :
          WritesStatus(s, t.id) => Caller(req[s]) = t.assignee_id]_vars

\* the request in slot s writes the details of task taskID in this step
WritesDetails(s, taskID) ==
    /\ req[s].kind = "patch" /\ req[s].pc = "write"
    /\ req[s].args[1].task_id = taskID
    /\ req'[s].pc = "done" /\ req'[s].status = 200

\* C38: the write of an update-details request changes only the fields the
\* request supplies; title, description and due_at it does not supply stay
\* as they are at the time of the write, so that concurrent requests with
\* disjoint fields both take effect.
PatchWritesSuppliedFieldsOnly ==
    [][\A s \in Slots, t \in tasks, x \in tasks' :
          WritesDetails(s, t.id) /\ x.id = t.id =>
              LET patch == req[s].args[1].patch IN
              /\ patch.title = <<>> => x.title = t.title
              /\ patch.description = <<>> => x.description = t.description
              /\ patch.due_at = <<>> => x.due_at = t.due_at]_vars

\* C24: no step of assign, update-status, update-details or reminder marking
\* changes the reporter_id or the team_id of a task.
ReporterNeverChanges ==
    [][\A t \in tasks, x \in tasks' :
          t.id = x.id => t.reporter_id = x.reporter_id /\ t.team_id = x.team_id]_vars

ReporterNeverChangesWitness ==
    \E t \in tasks :
        /\ t.id = SeedTask /\ t.reporter_id = "u2" /\ t.team_id = SeedTeam
        /\ t.assignee_id = "u2" /\ t.status = "done" /\ t.title = "Renamed"
        /\ t.reminder_sent_at # NULL

\* ================================================================ accounts
RegisterEmails == {"u3@example.com", "U3@Example.com", " U3@Example.com ", "U1@Example.com",
                   "no-at-sign"}

LoginEmails == {"U1@Example.com", "u3@example.com", "nobody@example.com", "no-at-sign"}

AccountsNext ==
    \/ \E s \in Slots, email \in RegisterEmails, password \in {"correct horse", "short"} :
            Register(s, email, password)
    \/ \E s \in Slots, email \in LoginEmails, password \in Passwords : Login(s, email, password)
    \/ \E s \in Slots : LoginRevokeAll(s)
    \/ \E s \in Slots : LoginCreate(s)

AccountsSpec == Init /\ [][AccountsNext]_vars

EmailsDiffer ==
    \A u, v \in DOMAIN users : u # v => Lower(users[u].email) # Lower(users[v].email)

\* a well-formed registration that has just been answered
Registered(s) ==
    /\ req'[s] # req[s] /\ req'[s].kind = "register"
    /\ ~InvalidEmail(NormalizeEmail(req'[s].args[1].email))
    /\ Len(req'[s].args[1].password) >= MinPasswordLen

RegisterEffect(s) ==
    LET e == NormalizeEmail(req'[s].args[1].email) IN
    IF \E u \in DOMAIN users : Lower(users[u].email) = Lower(e)
    THEN /\ req'[s].status = 409 /\ req'[s].error = <<EmailAlreadyExists>>
         /\ users' = users
    ELSE /\ req'[s].status = 201
         /\ \E u \in DOMAIN users' \ DOMAIN users :
               /\ users'[u].email = e
               /\ DOMAIN users' = DOMAIN users \cup {u}
               /\ \A v \in DOMAIN users : users'[v] = users[v]

\* C25: no two users have emails equal up to letter case; a registration whose
\* lower-cased, trimmed email equals an existing one up to case is answered 409
\* and creates no user, and any other creates one user with that email.
EmailsUniqueUpToCase ==
    /\ EmailsDiffer
    /\ [][EmailsDiffer' /\ \A s \in Slots : Registered(s) => RegisterEffect(s)]_vars

EmailsUniqueUpToCaseWitness ==
    /\ "u3" \in DOMAIN users /\ users["u3"].email = "u3@example.com"
    /\ \E s, t \in Slots :
          /\ req[s].kind = "register" /\ req[s].status = 201
          /\ req[s].args[1].email = " U3@Example.com "
          /\ req[t].kind = "register" /\ req[t].status = 409
          /\ req[t].args[1].email = "U3@Example.com"

\* ---------------------------------------------------------------- failed login
\* what the client receives: status, error body, cookie and access token
Response(r) ==
    [status |-> r.status, error |-> r.error, setCookie |-> r.setCookie,
     access |-> IF r.status = 200 THEN r.access ELSE <<>>]

\* a login that ended at ErrNotFound or at a failed VerifyPassword
FailedLogin(r) == r.kind = "login" /\ r.pc = "done" /\ r.failedAt \in {"email", "password"}

\* C27: a login refused for an unknown email and one refused for a wrong
\* password get the same response, 401 INVALID_CREDENTIALS "Invalid email or
\* password", and the step that refuses leaves the ledger unchanged.
FailedLoginsAlike ==
    /\ [](\A s, t \in Slots :
            FailedLogin(req[s]) /\ FailedLogin(req[t]) => Response(req[s]) = Response(req[t]))
    /\ [](\A s \in Slots :
            FailedLogin(req[s]) =>
                /\ req[s].status = 401
                /\ req[s].error = <<AppError("INVALID_CREDENTIALS", "Invalid email or password", 401)>>
                /\ req[s].setCookie = <<>>)
    /\ [][\A s \in Slots : req'[s] # req[s] /\ FailedLogin(req'[s]) => ledger' = ledger]_vars

FailedLoginsAlikeWitness ==
    /\ ledger # {}
    /\ \E s, t \in Slots :
          /\ FailedLogin(req[s]) /\ req[s].failedAt = "email"
          /\ FailedLogin(req[t]) /\ req[t].failedAt = "password"

\* ---------------------------------------------------------------- team names
TeamNamesDiffer ==
    \A t, u \in teams : t # u => t.id # u.id /\ Lower(t.name) # Lower(u.name)

\* the insert of request s runs while a team with its name up to case exists
InsertsTakenName(s) ==
    /\ req[s].kind = "createTeam" /\ req[s].pc = "insertTeam" /\ req'[s] # req[s]
    /\ req'[s].failedAt # "crash"
    /\ \E t \in teams : Lower(t.name) = Lower(req[s].args[1].name)

\* C26: no two teams have names equal up to letter case; an insert of a name
\* that an existing team has up to case is answered 409, and neither a team
\* row nor a membership row of that request ever exists.
TeamNamesUniqueUpToCase ==
    /\ [](TeamNamesDiffer)
    /\ [](\A s \in Slots :
            req[s].kind = "createTeam" /\ req[s].status = 409 =>
                /\ \A t \in teams : t.id # req[s].args[1].id
                /\ \A m \in team_members : m.team_id # req[s].args[1].id)
    /\ [][\A s \in Slots :
            InsertsTakenName(s) =>
                /\ req'[s].pc = "done" /\ req'[s].status = 409
                /\ teams' = teams /\ team_members' = team_members]_vars

TeamNamesUniqueUpToCaseWitness ==
    \E s \in Slots, t \in teams :
        /\ req[s].kind = "createTeam" /\ req[s].status = 409
        /\ req[s].args[1].name = "alpha" /\ t.name = "Alpha"
        /\ req[s].user[1].id # t.owner_id

\* ---------------------------------------------------------------- upsert
MemberRows(ms, teamID, userID) == {m \in ms : m.team_id = teamID /\ m.user_id = userID}

OneRowPerMember ==
    \A m, n \in team_members : m.team_id = n.team_id /\ m.user_id = n.user_id => m = n

\* the store call of an add-member request whose caller is owner or admin
AddsAsManager(s) ==
    /\ req[s].kind = "addMember" /\ req[s].pc \in {"recheck", "upsert"} /\ req'[s] # req[s]
    /\ IsOwnerOrAdmin(req[s].args[1].team_id, Caller(req[s]))

UpsertEffect(s) ==
    LET a == req[s].args[1]
        row == TeamMember(a.team_id, a.user_id, a.role) IN
    IF req[s].pc = "recheck" THEN req'[s].pc = "upsert" /\ team_members' = team_members
    ELSE /\ req'[s].pc = "done" /\ req'[s].status = 200
         /\ MemberRows(team_members', a.team_id, a.user_id) = {row}
         /\ team_members' \ {row} = team_members \ MemberRows(team_members, a.team_id, a.user_id)
         /\ row \in team_members => team_members' = team_members

\* C28: an add-member request of an owner or admin succeeds also for a user
\* who is a member already, leaves exactly one row for (team, user) with the
\* requested role, changes no other row, and changes nothing when the row
\* had that role.
AddMemberUpserts ==
    /\ [](OneRowPerMember)
    /\ [][\A s \in Slots : AddsAsManager(s) => UpsertEffect(s)]_vars

AddMemberUpsertsWitness ==
    \E s, t \in Slots :
        /\ s # t
        /\ req[s].kind = "addMember" /\ req[s].status = 200
        /\ req[t].kind = "addMember" /\ req[t].status = 200
        /\ req[s].args[1].team_id = req[t].args[1].team_id
        /\ req[s].args[1].user_id = req[t].args[1].user_id
        /\ req[s].args[1].role # req[t].args[1].role
        /\ Cardinality(MemberRows(team_members, req[s].args[1].team_id, req[s].args[1].user_id)) = 1

\* ---------------------------------------------------------------- removal
RemovalNext ==
    \/ \E s \in Slots, header \in Bearers, teamIdStr \in {SeedTeam, NoTeam},
          userIdStr \in AllUserIDs \cup {NotAUUID} : RemoveMember(s, header, teamIdStr, userIdStr)
    \/ \E s \in Slots : RemoveMemberFromTeam(s)
    \/ \E s \in Slots, header \in Bearers, userIdStr \in {"u1", "u3"} :
            HandleAddMember(s, header, SeedTeam, userIdStr, "member")
    \/ \E s \in Slots : AddMemberCheck(s)
    \/ \E s \in Slots : AddMember(s)

RemovalSpec == TasksInit /\ [][RemovalNext]_vars

\* a well-formed removal request of an owner or admin is received
ManagerAsksRemoval(s) ==
    /\ started' = started + 1 /\ req'[s] # req[s] /\ req'[s].kind = "removeMember"
    /\ RequireAuth(req'[s].header, now).status = 0
    /\ req'[s].args[1].team_id # NotATeamID /\ req'[s].args[1].user_id # NotAUUID
    /\ IsOwnerOrAdmin(req'[s].args[1].team_id, Caller(req'[s]))

\* the DELETE of a removal request runs
Removes(s) == req[s].kind = "removeMember" /\ req[s].pc = "delete" /\ req'[s] # req[s]

RemovalEffect(s) ==
    LET a == req[s].args[1]
        rows == MemberRows(team_members, a.team_id, a.user_id) IN
    /\ req'[s].pc = "done"
    /\ team_members' = team_members \ rows
    /\ req'[s].status = IF rows # {} THEN 200 ELSE 404

\* C29: the removal of an existing member by an owner or admin is answered 200
\* and deletes the row; the removal of a user who is not, or no longer, a
\* member is answered 404 and changes nothing.
RemovalNotIdempotent ==
    [][\A s \in Slots :
          /\ ManagerAsksRemoval(s) => req'[s].pc = "delete" /\ team_members' = team_members
          /\ Removes(s) => RemovalEffect(s)]_vars

RemovalNotIdempotentWitness ==
    \E s, t \in Slots :
        /\ req[s].kind = "removeMember" /\ req[s].status = 200
        /\ req[t].kind = "removeMember" /\ req[t].status = 404
        /\ req[s].args = req[t].args /\ req[s].header = req[t].header
        /\ req[s].args[1].user_id = "u1" /\ Caller(req[s]) = "u2"
        /\ ~IsMember(SeedTeam, "u1")

\* ---------------------------------------------------------------- revoke
\* the hashes a client can make a handler pass to Revoke
PresentedHashes == {Sha256Hex(c[1]) : c \in RefreshCookies \ {<<>>}}

\* Revoke(tokenHash, now) called in the present state
RevokeOutcome(tokenHash) ==
    LET live == {r \in ledger : r.token_hash = tokenHash /\ r.revoked_at = NULL}
        res == Revoke(ledger, tokenHash, now) IN
    /\ res.err \in {"", "not found"}
    /\ res.err = "not found" <=> live = {}
    /\ live = {} => res.rows = ledger
    /\ live # {} => /\ Cardinality(res.rows) = Cardinality(ledger)
                    /\ \A r \in ledger \ live : r \in res.rows
                    /\ \A r \in live : [r EXCEPT !.revoked_at = now] \in res.rows

\* C30: Revoke sets revoked_at on a row that exists and is not revoked, and on
\* no other; for an absent or a revoked hash it fails with "not found" and
\* changes nothing; no step changes a row whose revoked_at is set.
RevokeOnlyLiveRows ==
    /\ [](\A h \in PresentedHashes : RevokeOutcome(h))
    /\ [][\A r \in ledger, x \in ledger' :
            r.token_hash = x.token_hash /\ r.revoked_at # NULL => x = r]_vars

RevokeOnlyLiveRowsWitness ==
    \E s \in Slots, r \in ledger :
        /\ req[s].kind = "refresh" /\ req[s].pc = "done" /\ req[s].failedAt = "revoke"
        /\ r.token_hash = req[s].stored[1].token_hash
        /\ r.revoked_at # NULL /\ r.revoked_at < now

\* ---------------------------------------------------------------- retention
\* the rows of the ledger that the step removes
Gone == {r \in ledger : ~\E x \in ledger' : x.token_hash = r.token_hash}

\* C31: a step that removes ledger rows is the maintenance sweep: it removes
\* exactly the rows with expires_at < now - 24 h, revoked or not, changes no
\* other row and removes no active token; DeleteExpired(cutoff) keeps exactly
\* the rows with expires_at >= cutoff.
RowsDeletedOnlyBySweep ==
    /\ [](\A cutoff \in {now - CleanupAge, now} :
            DeleteExpired(ledger, cutoff) = ledger \ {r \in ledger : r.expires_at < cutoff})
    /\ [][Gone # {} =>
            /\ Gone = {r \in ledger : r.expires_at < now - CleanupAge}
            /\ ledger' = ledger \ Gone
            /\ \A r \in Gone : ~Active(r, now)]_vars

RowsDeletedOnlyBySweepWitness ==
    /\ \E t \in delivered : IsRefresh(t) /\ TokenHashFree(ledger, Sha256Hex(t))
    /\ \E r \in ledger : r.revoked_at # NULL /\ ~(r.expires_at < now)

\* ---------------------------------------------------------------- issue
\* C32: Create with expires_at <= now inserts nothing: every row that a step
\* inserts expires strictly after the time of the insert.
CreateNeedsFutureExpiry ==
    [][\A x \in ledger' : TokenHashFree(ledger, x.token_hash) => now < x.expires_at]_vars

\* ---------------------------------------------------------------- sessions
\* C33: in every state each user has at most one active (unrevoked,
\* unexpired) refresh token.
OneActiveSession ==
    \A u \in UserIDs : Cardinality(ActiveTokensOf(ledger, u, now)) <= 1

\* ---------------------------------------------------------------- rotation
RowsOf(rows, tokenHash) == {r \in rows : r.token_hash = tokenHash}

\* the insert of the successor runs in request s
RotationInserts(s) == req[s].kind = "refresh" /\ req[s].pc = "create" /\ req'[s] # req[s]

SignedInInit ==
    /\ config = NewApplication("access-secret", "refresh-secret")
    /\ now = 0
    /\ ticks = 0
    /\ started = 0
    /\ users = [u \in UserIDs |->
                  [email |-> IF u = "u1" THEN "u1@example.com" ELSE "u2@example.com",
                   password_hash |-> HashPassword("correct horse"),
                   user_type |-> IF u = "u1" THEN "employee" ELSE "admin"]]
    /\ ledger = Create({}, "u1", Sha256Hex(MintRefreshToken("u1", 0)), LedgerLifetime, 0).rows
    /\ req = [s \in Slots |-> NoRequest]
    /\ delivered = {MintAccessToken("u1", "u1@example.com", "employee", 0), MintRefreshToken("u1", 0)}
    /\ rotated = {}
    /\ loggedOut = {}
    /\ loggedOutAll = {}
    /\ lookup = NoLookup
    /\ teams = {}
    /\ team_members = {}
    /\ tasks = {}
    /\ validated = NoValidation

SignedInNext ==
    \/ \E s \in Slots : Login(s, "u1@example.com", "correct horse")
    \/ \E s \in Slots : LoginRevokeAll(s)
    \/ \E s \in Slots : LoginCreate(s)
    \/ \E s \in Slots, cookie \in OwnCookies : RefreshAccessToken(s, cookie)
    \/ \E s \in Slots : RefreshGetUser(s)
    \/ \E s \in Slots : RotateRevoke(s)
    \/ \E s \in Slots : RotateCreate(s)
    \/ \E s \in Slots, header \in BearerHeaders : LogoutFromAllDevices(s, header)
    \/ Tick(1)

SignedInSpec == SignedInInit /\ [][SignedInNext]_vars

\* C35: when logout-all of a user is answered 200 the user has no active
\* refresh token, and no refresh request that presents a token handed out
\* before that logout-all is answered 200 afterwards.
LogoutAllEndsSessions ==
    [][\A s \in Slots :
          /\ req'[s] # req[s] /\ req'[s].kind = "logoutAll" /\ req'[s].status = 200 =>
               ActiveTokensOf(ledger', req'[s].user[1].id, now) = {}
          /\ req'[s] # req[s] /\ req'[s].kind = "refresh" /\ req'[s].status = 200 =>
               req'[s].cookie[1] \notin loggedOutAll]_vars

\* ---------------------------------------------------------------- last owner
\* a well-formed user id that no user has
NoSuchUser == "u4"

OrphanNext ==
    \/ \E s \in Slots, header \in Bearers, userIdStr \in {"u1", "u2"} :
            RemoveMember(s, header, SeedTeam, userIdStr)
    \/ \E s \in Slots : RemoveMemberFromTeam(s)
    \/ \E s \in Slots, header \in Bearers, userIdStr \in {"u2", "u3", NoSuchUser} :
            HandleAddMember(s, header, SeedTeam, userIdStr, "member")
    \/ \E s \in Slots : AddMemberCheck(s)
    \/ \E s \in Slots : AddMember(s)

OrphanSpec == TasksInit /\ [][OrphanNext]_vars

\* the team has no member with role owner or admin
Orphaned(teamID) ==
    ~\E m \in team_members : m.team_id = teamID /\ m.role \in {"owner", "admin"}

\* an authenticated add-member or remove-member request for the team arrives
AsksMembership(s, teamID) ==
    /\ started' = started + 1 /\ req'[s] # req[s]
    /\ req'[s].kind \in {"addMember", "removeMember"}
    /\ req'[s].args[1].team_id = teamID
    /\ RequireAuth(req'[s].header, now).status = 0

\* C36: once the team has no owner or admin, every add-member and
\* remove-member request that arrives for it is refused with 403, and the
\* membership of the team does not change any more.
OrphanedTeamIsFrozen ==
    [][Orphaned(SeedTeam) =>
          /\ \A s \in Slots :
                AsksMembership(s, SeedTeam) => req'[s].pc = "done" /\ req'[s].status = 403
          /\ team_members' = team_members]_vars

\* ------------------------------------------------------- rejected requests
\* the persistent state: the tables of the database
Persistent == <<users, ledger, teams, team_members, tasks>>

Rejections == {400, 401, 403, 404, 409}

\* the request in slot s is answered with a rejection in this step
Rejected(s) == req'[s] # req[s] /\ req'[s].pc = "done" /\ req'[s].status \in Rejections

\* a request in flight that has passed a statement that writes
HasWritten(r) == r.kind \in {"login", "refresh"} /\ r.pc = "create"

\* the routes of the router together: the seeded workspace one second after
\* u1 has logged in, each user sending the access token of their login
ApiInit ==
    /\ config = NewApplication("access-secret", "refresh-secret")
    /\ now = 1
    /\ ticks = 0
    /\ started = 0
    /\ users = [u \in AllUserIDs |->
                  [email |-> IF u = "u1" THEN "u1@example.com"
                             ELSE IF u = "u2" THEN "u2@example.com" ELSE "u3@example.com",
                   password_hash |-> HashPassword("correct horse"),
                   user_type |-> IF u = "u2" THEN "admin" ELSE "employee"]]
    /\ ledger = Create({}, "u1", Sha256Hex(MintRefreshToken("u1", 0)), LedgerLifetime, 0).rows
    /\ req = [s \in Slots |-> NoRequest]
    /\ delivered = {MintAccessToken(u, users[u].email, users[u].user_type, 0) : u \in AllUserIDs}
                      \cup {MintRefreshToken("u1", 0)}
    /\ rotated = {}
    /\ loggedOut = {}
    /\ loggedOutAll = {}
    /\ lookup = NoLookup
    /\ teams = {Team(SeedTeam, "Alpha", "u2")}
    /\ team_members = {TeamMember(SeedTeam, "u2", "owner"), TeamMember(SeedTeam, "u1", "admin")}
    /\ tasks = {Task(SeedTask, SeedTeam, "Write report", "u2", "u1", 2 * EightHours, "open")}
    /\ validated = NoValidation

HeldBy(u) ==
    Str(BearerPrefix,
        <<MintAccessToken(u, users[u].email, IF u = "u2" THEN "admin" ELSE "employee", 0)>>)

ApiNext ==
    \/ \E s \in Slots, password \in {"correct horse", "wrong horse"} :
            Login(s, "u1@example.com", password)
    \/ \E s \in Slots : LoginRevokeAll(s)
    \/ \E s \in Slots : LoginCreate(s)
    \/ \E s \in Slots, cookie \in {<<>>, <<MintRefreshToken("u1", 0)>>} : RefreshAccessToken(s, cookie)
    \/ \E s \in Slots : RefreshGetUser(s)
    \/ \E s \in Slots : RotateRevoke(s)
    \/ \E s \in Slots : RotateCreate(s)
    \/ \E s \in Slots : Logout(s, <<MintRefreshToken("u1", 0)>>)
    \/ \E s \in Slots, header \in {EmptyStr, HeldBy("u1")} : LogoutFromAllDevices(s, header)
    \/ \E s \in Slots : Register(s, "u1@example.com", "correct horse")
    \/ \E s \in Slots, c \in {<<"u2", NoSuchUser>>, <<"u2", "u3">>, <<"u1", "u1">>} :
            HandleUpdateUserType(s, HeldBy(c[1]), c[2], "task_manager")
    \/ \E s \in Slots : UpdateUserTypeWrite(s)
    \/ \E s \in Slots, c \in {<<"u2", "Alpha">>, <<"u2", "Beta">>, <<"u1", "Beta">>} :
            CreateTeam(s, HeldBy(c[1]), c[2])
    \/ \E s \in Slots : BeginTx(s, TRUE)
    \/ \E s \in Slots : InsertTeam(s, TRUE)
    \/ \E s \in Slots : InsertMember(s, TRUE)
    \/ \E s \in Slots : Commit(s, TRUE)
    \/ \E s \in Slots, c \in {<<"u2", "u3">>, <<"u2", NoSuchUser>>, <<"u3", "u3">>} :
            HandleAddMember(s, HeldBy(c[1]), SeedTeam, c[2], "member")
    \/ \E s \in Slots : AddMemberCheck(s)
    \/ \E s \in Slots : AddMember(s)
    \/ \E s \in Slots, u \in {"u2", "u3"} : RemoveMember(s, HeldBy(u), SeedTeam, "u1")
    \/ \E s \in Slots : RemoveMemberFromTeam(s)
    \/ \E s \in Slots, title \in {"Fix bug", "  "} :
            CreateTask(s, HeldBy("u2"), SeedTeam, title, <<>>, now + EightHours)
    \/ \E s \in Slots : TaskStoreCreate(s)
    \/ \E s \in Slots, c \in {<<"u2", "u2">>, <<"u2", "u3">>, <<"u1", "u2">>} :
            AssignTask(s, HeldBy(c[1]), SeedTask, c[2])
    \/ \E s \in Slots : Assign(s)
    \/ \E s \in Slots, c \in {<<"u1", "done">>, <<"u1", "bogus">>, <<"u2", "done">>} :
            UpdateStatus(s, HeldBy(c[1]), SeedTask, c[2])
    \/ \E s \in Slots : StoreUpdateStatus(s)
    \/ \E s \in Slots, u \in {"u1", "u2"} : DeleteTask(s, HeldBy(u), SeedTask)
    \/ \E s \in Slots : StoreDeleteTask(s)
    \/ \E s \in Slots,
          patch \in {TaskUpdate(<<"Renamed">>, <<>>, <<>>), TaskUpdate(<<>>, <<>>, <<EightHours - 1>>)} :
            HandlePatchTask(s, HeldBy("u2"), SeedTask, patch)
    \/ \E s \in Slots : UpdateDetailsRead(s)
    \/ \E s \in Slots : UpdateDetails(s)

ApiSpec == ApiInit /\ [][ApiNext]_vars

\* C40: a request answered 400, 401, 403, 404 or 409 has changed nothing in
\* users, ledger, teams, team_members and tasks: the answering step writes
\* nothing, and no request that has written before is answered that way.
RejectedRequestsWriteNothing ==
    [][\A s \in Slots :
          /\ Rejected(s) => Persistent' = Persistent /\ ~HasWritten(req[s])
          /\ req'[s] # req[s] /\ Persistent' # Persistent /\ req'[s].pc # "done" =>
                 HasWritten(req'[s])
          /\ HasWritten(req[s]) /\ req'[s].pc # "done" => HasWritten(req'[s])]_vars

\* a team name was refused by the insert and a row to delete was gone, each
\* after the handler's own checks had passed
RejectedRequestsWriteNothingWitness ==
    \E s, x \in Slots :
        /\ req[s].pc = "done" /\ req[s].status = 409 /\ req[s].failedAt = "insertTeam"
        /\ req[x].pc = "done" /\ req[x].status = 404 /\ req[x].failedAt = "delete"

====
